---------------------------- MODULE Spec2Model ----------------------------
(***************************************************************************)
(* A model of plcm (Pluviolithic/pylcm): the provider registry (lcm.py),   *)
(* the tcpq and udpm connections of the providers package and their        *)
(* subscriptions, as threads that interleave at every access to shared     *)
(* state.                                                                  *)
(*                                                                         *)
(* Strings are sequences of byte values (ASCII codes), so that framing and *)
(* parsing are computed, not assumed.  A channel pattern is a literal      *)
(* regular expression (no metacharacters): re.compile(p).match(c) is then  *)
(* "p is a prefix of c".                                                   *)
(***************************************************************************)
EXTENDS Integers, Sequences, FiniteSets, TLC

\* ------------------------------------------------------------------ bounds
NumUsers == 2      \* user threads calling the public API concurrently
MaxSubs == 2       \* Subscriptions one connection creates
MaxRegCalls == 3   \* calls made on one registry
MaxTrips == 2      \* publishes the one caller of the udpm codec makes
MaxMakes == 2      \* constructions of a tcpq connection one after another
MaxOutCalls == 3   \* calls followed through the locks and the socket's writes
MaxFeeds == 6      \* datagrams handed to the udpm reader one after another
MaxCbPublishes == 1   \* messages published to callbacks that call the API

\* The runs explored: how many publish, subscribe, unsubscribe and disconnect
\* calls the user threads make and how often the relay fails, at most.
Ops == {"publish", "subscribe", "unsubscribe", "disconnect", "close"}
Workload(p, s, u, d, c) ==
    [publish |-> p, subscribe |-> s, unsubscribe |-> u, disconnect |-> d,
     close |-> c]
Workloads ==
    { Workload(2, 1, 0, 0, 0),
      Workload(1, 2, 0, 0, 0),
      Workload(1, 1, 2, 0, 0),
      Workload(1, 1, 0, 1, 0),
      Workload(0, 1, 1, 1, 0),
      Workload(0, 1, 0, 2, 0),
      Workload(1, 0, 0, 2, 0),
      Workload(1, 1, 0, 0, 1),
      Workload(0, 1, 1, 0, 1) }

\* --------------------------------------------------------- program constants
PUBLISH == 1
SUBSCRIBE == 2
UNSUBSCRIBE == 3
FRAGMENTATION_THRESHOLD == 64000
MAX_FRAGMENTS == 65535

MAGIC_SERVER == <<40, 118, 23, 250>>
MAGIC_CLIENT == <<40, 118, 23, 251>>
PROTOCOL_VERSION == <<0, 0, 1, 0>>
MAGIC_SHORT == <<76, 67, 48, 50>>     \* b"LC02"
MAGIC_LONG == <<76, 67, 48, 51>>      \* b"LC03"

\* ------------------------------------------------------------ input alphabet
ChA == <<97>>             \* "a"
ChAB == <<97, 98>>        \* "ab"
Channels == {ChA, ChAB}   \* channels published on
Patterns == {ChA, ChAB}   \* patterns subscribed with
Datas == {<<7>>}             \* payloads
NoMsg == [channel |-> <<>>, data |-> <<>>]

\* ------------------------------------------------------------------- bytes
Min(a, b) == IF a < b THEN a ELSE b

RECURSIVE ToBytes(_, _)
\* n.to_bytes(w, "big", signed=False)
ToBytes(n, w) ==
    IF w = 0 THEN <<>> ELSE Append(ToBytes(n \div 256, w - 1), n % 256)

RECURSIVE FromBytes(_)
\* int.from_bytes(bs, "big", signed=False); b"" gives 0
FromBytes(bs) ==
    IF bs = <<>> THEN 0
    ELSE 256 * FromBytes(SubSeq(bs, 1, Len(bs) - 1)) + bs[Len(bs)]

Drop(bs, n) == SubSeq(bs, n + 1, Len(bs))
Take(bs, n) == SubSeq(bs, 1, Min(n, Len(bs)))

\* a pattern that has to be the whole channel
MatchesWhole(pattern, channel) == pattern = channel

\* re.compile(pattern).match(channel) is not None, for a literal pattern

Matches(pattern, channel) ==
    /\ Len(pattern) <= Len(channel)
    /\ SubSeq(channel, 1, Len(pattern)) = pattern

\* tcpq frames, as the code concatenates them
PublishFrame(channel, data) ==
    ToBytes(PUBLISH, 4) \o ToBytes(Len(channel), 4) \o channel
        \o ToBytes(Len(data), 4) \o data
SubscribeFrame(channel) ==
    ToBytes(SUBSCRIBE, 4) \o ToBytes(Len(channel), 4) \o channel
UnsubscribeFrame(channel) ==
    ToBytes(UNSUBSCRIBE, 4) \o ToBytes(Len(channel), 4) \o channel


\* ------------------------------------------------------- tcpq receive path
\* sock.recv(n, MSG_WAITALL) on a stream holding buf: all n bytes, fewer only at
\* end of stream (eof), otherwise the call blocks (ok = FALSE).
RecvAll(buf, n, eof) ==
    IF Len(buf) >= n
    THEN [ok |-> TRUE, got |-> Take(buf, n), rest |-> Drop(buf, n)]
    ELSE IF eof THEN [ok |-> TRUE, got |-> buf, rest |-> <<>>]
    ELSE [ok |-> FALSE, got |-> <<>>, rest |-> buf]

\* sock.recv(n) without MSG_WAITALL: whatever has arrived, at least one byte and
\* at most n; k is the number of bytes the kernel has ready at that moment.
RecvSome(buf, n, k, eof) ==
    IF buf = <<>>
    THEN [ok |-> eof, got |-> <<>>, rest |-> <<>>]
    ELSE [ok |-> TRUE, got |-> Take(buf, Min(k, n)), rest |-> Drop(buf, Min(Min(k, n), Len(buf)))]

\* LcmTcpqConnection._read_lcm_msg: five recv calls; the fourth, of the
\* data-length field, is the one without MSG_WAITALL.
ReadLcmMsg(buf, k, eof) ==
    LET type == RecvAll(buf, 4, eof)
        clen == RecvAll(type.rest, 4, eof)
        chan == RecvAll(clen.rest, FromBytes(clen.got), eof)
        dlen == RecvSome(chan.rest, 4, k, eof)
        data == RecvAll(dlen.rest, FromBytes(dlen.got), eof)
    IN  [ok |-> type.ok /\ clen.ok /\ chan.ok /\ dlen.ok /\ data.ok,
         msg |-> [channel |-> chan.got, data |-> data.got],
         rest |-> data.rest]

\* ------------------------------------------------------------ the tcpq relay
\* The relay is the peer of the tests (an lcm tcpq server at 127.0.0.1:7700): it
\* keeps this client's subscriptions and sends a published message back once
\* when one of them matches.
FrameType(f) == FromBytes(Take(f, 4))
FrameChannel(f) == SubSeq(f, 9, 8 + FromBytes(SubSeq(f, 5, 8)))
FrameData(f) == Drop(f, 12 + Len(FrameChannel(f)))

RECURSIVE RelaySubs(_)
RelaySubs(w) ==
    IF w = <<>> THEN [p \in Patterns |-> 0]
    ELSE LET prev == RelaySubs(SubSeq(w, 1, Len(w) - 1))
             f == w[Len(w)]
         IN  IF FrameType(f) = SUBSCRIBE
             THEN [prev EXCEPT ![FrameChannel(f)] = @ + 1]
             ELSE IF FrameType(f) = UNSUBSCRIBE /\ prev[FrameChannel(f)] > 0
             THEN [prev EXCEPT ![FrameChannel(f)] = @ - 1]
             ELSE prev

RelayDelivers(w, channel) ==
    \E p \in Patterns : RelaySubs(w)[p] > 0 /\ Matches(p, channel)

\* ------------------------------------------------------------ udpm datagrams
\* LcmUdpmConnection._publish_small_payload
SmallDatagram(seq, payload) == MAGIC_SHORT \o ToBytes(seq, 4) \o payload

\* data[offset : offset + length]
Slice(data, offset, length) ==
    SubSeq(data, offset + 1, Min(offset + length, Len(data)))

\* a count that leaves the last, partial fragment out
FragmentCountFloor(quotient, remainder) == quotient

\* lines 318-320, given payload_length // FRAGMENTATION_THRESHOLD and
\* payload_length % FRAGMENTATION_THRESHOLD
FragmentCountOf(quotient, remainder) == quotient + Min(remainder, 1)

FragmentCount(payload_length) ==
    FragmentCountOf(payload_length \div FRAGMENTATION_THRESHOLD,
                    payload_length % FRAGMENTATION_THRESHOLD)

\* a sender without a limit on the fragment count
NeverTooMany(fragment_count) == FALSE

\* line 322
TooMany(fragment_count) == fragment_count > MAX_FRAGMENTS

RECURSIVE LargeDatagrams(_, _, _, _, _)
\* the loop of LcmUdpmConnection._publish_large_payload from fragment_idx on
LargeDatagrams(encoded_channel, data, seq, fragment_idx, fragment_offset) ==
    LET count == FragmentCount(Len(encoded_channel) + Len(data))
        fragment_length ==
            IF fragment_idx = 0
            THEN FRAGMENTATION_THRESHOLD - Len(encoded_channel)
            ELSE Min(FRAGMENTATION_THRESHOLD, Len(data) - fragment_offset)
        to_publish ==
            (IF fragment_idx = 0 THEN encoded_channel ELSE <<>>)
                \o Slice(data, fragment_offset, fragment_length)
        dgram == MAGIC_LONG \o ToBytes(seq, 4) \o ToBytes(Len(data), 4)
                    \o ToBytes(fragment_offset, 4) \o ToBytes(fragment_idx, 2)
                    \o ToBytes(count, 2) \o to_publish
    IN  IF fragment_idx >= count THEN <<>>
        ELSE <<dgram>> \o LargeDatagrams(encoded_channel, data, seq,
                              fragment_idx + 1, fragment_offset + fragment_length)

\* The datagrams one udpm publish sends, in order (publish, lines 165-171).
PublishDatagrams(channel, data, seq) ==
    LET encoded_channel == Append(channel, 0)
        payload == encoded_channel \o data
    IN  IF Len(payload) < FRAGMENTATION_THRESHOLD
        THEN <<SmallDatagram(seq, payload)>>
        ELSE LargeDatagrams(encoded_channel, data, seq, 0, 0)

RECURSIVE UpToNul(_)
\* bs.split(b"\x00")[0]
UpToNul(bs) ==
    IF bs = <<>> \/ bs[1] = 0 THEN <<>> ELSE <<bs[1]>> \o UpToNul(Tail(bs))

\* a reader that leaves the separator in front of the data
ReadSmallPayloadWhole(data) ==
    [channel |-> UpToNul(data), data |-> Drop(data, Len(UpToNul(data)))]

\* LcmUdpmConnection._read_small_payload, given data[8:]
ReadSmallPayload(data) ==
    [channel |-> UpToNul(data), data |-> Drop(data, Len(UpToNul(data)) + 1)]

\* a reader that keeps one buffer for each sequence number
BufferKeyOfSequence(sequence_number, source_address) == <<sequence_number, "A">>

\* line 258: hash((sequence_number, source_address)), taken as the pair itself
BufferKey(sequence_number, source_address) ==
    <<sequence_number, source_address>>

\* a reader that takes a fragment whatever its number
NeverOutOfTurn(fb, sequence_number, fragment_number) == FALSE

\* the second and third tests of lines 275-279: the fragment is not the one
\* the buffer waits for
OutOfTurn(fb, sequence_number, fragment_number) ==
    \/ fb.sequence_number # sequence_number
    \/ fb.current_fragment_number # fragment_number

\* LcmUdpmConnection._read_large_payload_fragment, given data[4:], the sender's
\* address and the fragment buffers; the key hash((sequence_number,
\* source_address)) is the pair itself.  has says whether a message is returned.
ReadLargePayloadFragment(data, source_address, buffers) ==
    LET sequence_number == FromBytes(SubSeq(data, 1, 4))
        fragment_number == FromBytes(SubSeq(data, 13, 14))
        fragments_in_msg == FromBytes(SubSeq(data, 15, 16))
        payload0 == Drop(data, 16)
        buffer_key == BufferKey(sequence_number, source_address)
        first == fragment_number = 0
        channel == UpToNul(payload0)
        payload == IF first THEN Drop(payload0, Len(channel) + 1) ELSE payload0
        fresh == [data |-> <<>>, channel |-> channel,
                  sequence_number |-> sequence_number,
                  source_address |-> source_address,
                  fragments_remaining |-> fragments_in_msg,
                  current_fragment_number |-> fragment_number]
        buffers1 == IF first
                    THEN [k \in DOMAIN buffers \cup {buffer_key} |->
                             IF k = buffer_key THEN fresh ELSE buffers[k]]
                    ELSE buffers
        missing == buffer_key \notin DOMAIN buffers1
        fb == buffers1[buffer_key]
        grown == [fb EXCEPT !.data = @ \o payload,
                            !.fragments_remaining = @ - 1,
                            !.current_fragment_number = @ + 1]
    IN  IF missing THEN [has |-> FALSE, msg |-> NoMsg, buffers |-> buffers1]
        ELSE IF OutOfTurn(fb, sequence_number, fragment_number)
        THEN [has |-> FALSE, msg |-> NoMsg, buffers |-> buffers1]
        ELSE IF grown.fragments_remaining = 0
        THEN [has |-> TRUE,
              msg |-> [channel |-> grown.channel, data |-> grown.data],
              buffers |-> [k \in DOMAIN buffers1 \ {buffer_key} |-> buffers1[k]]]
        ELSE [has |-> FALSE, msg |-> NoMsg,
              buffers |-> [buffers1 EXCEPT ![buffer_key] = grown]]

\* LcmUdpmConnection._read_lcm_msg after recvmsg: what one datagram yields.
ReadDatagram(data, source_address, buffers) ==
    IF Take(data, 4) = MAGIC_SHORT
    THEN [has |-> TRUE, msg |-> ReadSmallPayload(Drop(data, 8)), buffers |-> buffers]
    ELSE IF Take(data, 4) = MAGIC_LONG
    THEN ReadLargePayloadFragment(Drop(data, 4), source_address, buffers)
    ELSE [has |-> FALSE, msg |-> NoMsg, buffers |-> buffers]

\* ------------------------------------------------------------------ state
VARIABLES
    proto,               \* "tcpq" or "udpm": which connection class this is
    disconnected,        \* Connection._disconnected (an Event)
    sock,                \* Connection._sock: "open", "shut" (shutdown) or "closed"
    peer,                \* tcpq: the relay's end, "up", "fin" (closed) or "rst"
    inb,                 \* what the socket holds to read: tcpq bytes, udpm datagrams
    wire,                \* every frame or datagram the socket accepted, in order
    subscriptions,       \* Connection._subscriptions, the live-set
    sequence_number,     \* LcmUdpmConnection._sequence_number
    fragment_buffers,    \* LcmUdpmConnection._fragment_buffers
    nsubs,               \* Subscriptions constructed so far (they are 1..nsubs)
    pattern,             \* Subscription._channel
    inactive,            \* Subscription._inactive (an Event)
    queue,               \* Subscription._queue
    stack,               \* per thread: the frames of the calls it is in
    thr,                 \* per thread: "unborn", "alive", "exited" or "raised"
    ret,                 \* per user thread: how its last API call ended
    done,                \* per kind of event: the API calls started and the
                         \*                     relay's failures so far
    handles,             \* Subscriptions that subscribe has returned to the user
    enqueued,            \* history: per Subscription, the messages receive() put
    delivered,           \* history: per Subscription, the callback invocations
    unsubReturned,       \* history: per Subscription, an unsubscribe() has returned
    disconnectReturned,  \* history: a disconnect() has returned to a thread
                         \*          other than the receiver
    providers,           \* Lcm._providers: name -> the provider registered
    last,                \* the registry's last call and how it ended
    ncalls,              \* calls made on the registry
    trip,                \* udpm codec: the last publish() made by the one
                         \*             caller, its result and datagram count
    out,                 \* udpm codec: the messages the reader has returned
                         \*             since that publish (data as runs)
    trips,               \* udpm codec: publishes made so far
    made,                \* tcpq construction: how far LcmTcpqConnection(url)
                         \*     has got, what it read and what came of it
    makes,               \* tcpq construction: constructions begun so far
    publish_mutex,       \* Connection._publish_mutex: Free or its holder
    subscriptions_mutex, \* Connection._subscriptions_mutex: Free or holder
    call,                \* outbound path: per user thread, the call it is in
    stream,              \* outbound path: what the socket took, piece by piece
    calls,               \* outbound path: calls begun so far
    fed,                 \* udpm reader: the last datagram read, and whether a
                         \*              message came of it
    emitted,             \* udpm reader: the messages returned so far
    feeds,               \* udpm reader: datagrams read so far
    late,                \* udpm reader: the keys a fragment of which came out
                         \*              of turn since their last fragment 0
    upto                 \* udpm reader: per peer, how many datagrams of its
                         \*              stream have been read, each in its
                         \*              turn; -1 once one was not

conn == <<proto, disconnected, sock, peer, inb, wire, subscriptions,
          sequence_number, fragment_buffers>>
subs == <<nsubs, pattern, inactive, queue>>
hist == <<enqueued, delivered, unsubReturned, disconnectReturned>>
reg == <<providers, last, ncalls>>
udp == <<trip, out, trips>>
ctor == <<made, makes>>
outb == <<publish_mutex, subscriptions_mutex, call, stream, calls>>
frag == <<fed, emitted, feeds, late, upto>>
aux == <<outb, frag>>
vars == <<conn, subs, stack, thr, ret, done, handles, hist, reg, udp, ctor,
          aux>>

Subs == 1 .. MaxSubs
Users == {<<"user", i>> : i \in 1 .. NumUsers}
Receiver == <<"receiver", 0>>
WorkerOf(s) == <<"worker", s>>
Threads == Users \cup {Receiver} \cup {WorkerOf(s) : s \in Subs}
SELF == "self"       \* the source address of this connection's own datagrams
Free == <<"free", 0>>   \* a Lock that no thread holds

\* a user thread that is in no call of the outbound path
NoCall == [op |-> "none", pc |-> "idle", n |-> 0, s |-> 0, left |-> <<>>,
           read |-> 0]

\* A frame of a call: where it is (pc) and its locals.
Frame(pc, s, channel, data) ==
    [pc |-> pc, s |-> s, todo |-> {}, channel |-> channel, data |-> data]
Sentinel == [channel |-> <<>>, data |-> <<>>, n |-> 0]     \* queue.put(None)

\* an event of kind op keeps the run within one of the workloads
May(op) ==
    \E w \in Workloads :
        \A o \in Ops : done[o] + (IF o = op THEN 1 ELSE 0) <= w[o]

Top(t) == stack[t][Len(stack[t])]
At(t, pc) == stack[t] # <<>> /\ Top(t).pc = pc
Below(t) == SubSeq(stack[t], 1, Len(stack[t]) - 1)
SetTop(t, f) == [stack EXCEPT ![t] = [stack[t] EXCEPT ![Len(stack[t])] = f]]
Goto(t, pc) == SetTop(t, [Top(t) EXCEPT !.pc = pc])
\* call f from the top frame, which continues at pc when f returns
Call(t, pc, f) ==
    [stack EXCEPT ![t] = Append([stack[t] EXCEPT ![Len(stack[t])].pc = pc], f)]

\* A call returns val and leaves the frames base.  The caller goes on with what
\* it does next without touching shared state: publish ("pub3") returns,
\* subscribe ("sub4") returns None, the loop of disconnect ("dis5") ends when
\* nothing is left to unsubscribe.  A user thread's outermost call records how
\* it ended.
ReturnTo(t, base, val) ==
    LET f == base[Len(base)]
        outer == base = <<>> \/ f.pc \in {"pub3", "sub4"}
        result == IF base = <<>> THEN val
                  ELSE IF f.pc = "pub3" THEN "ok" ELSE "absent"
    IN  /\ stack' = [stack EXCEPT ![t] =
                        IF outer THEN <<>>
                        ELSE IF f.pc = "dis5" /\ f.todo = {}
                        THEN [base EXCEPT ![Len(base)].pc = "dis6"]
                        ELSE base]
        /\ ret' = IF t \in Users /\ outer
                  THEN [ret EXCEPT ![t] = result] ELSE ret

\* an exception nothing catches: the thread's frames unwind and the thread ends
Raise(t) ==
    /\ stack' = [stack EXCEPT ![t] = <<>>]
    /\ thr' = [thr EXCEPT ![t] = "raised"]
Ended(t) == thr[t] \in {"exited", "raised"}

Init ==
    /\ proto \in {"tcpq", "udpm"}
    /\ disconnected = FALSE
    /\ sock = "open"
    /\ peer = "up"
    /\ inb = <<>>
    /\ wire = <<>>
    /\ subscriptions = {}
    /\ sequence_number = 0
    /\ fragment_buffers = [k \in {} |-> NoMsg]
    /\ nsubs = 0
    /\ pattern = [s \in Subs |-> <<>>]
    /\ inactive = [s \in Subs |-> FALSE]
    /\ queue = [s \in Subs |-> <<>>]
    /\ stack = [t \in Threads |->
                   IF t = Receiver THEN <<Frame("r1", 0, <<>>, <<>>)>> ELSE <<>>]
    /\ thr = [t \in Threads |->
                 IF t \in Users \cup {Receiver} THEN "alive" ELSE "unborn"]
    /\ ret = [t \in Users |-> "none"]
    /\ done = [o \in Ops |-> 0]
    /\ handles = {}
    /\ enqueued = [s \in Subs |-> <<>>]
    /\ delivered = [s \in Subs |-> <<>>]
    /\ unsubReturned = [s \in Subs |-> FALSE]
    /\ disconnectReturned = FALSE
    /\ providers = [n \in {"tcpq"} |-> "LcmTcpqProvider"]
    /\ last = [op |-> "none", arg |-> "", provider |-> "none",
               override_existing |-> FALSE, result |-> "none", invoked |-> "none"]
    /\ ncalls = 0
    /\ trip = [channel |-> <<>>, blocks |-> 0, rest |-> 0, result |-> "none",
               sent |-> 0, before |-> "none"]
    /\ out = <<>>
    /\ trips = 0
    /\ made = [pc |-> "none", url |-> "", read |-> FALSE, reply |-> <<>>,
               result |-> "none", receiver |-> FALSE, frames |-> <<>>]
    /\ makes = 0
    /\ publish_mutex = Free
    /\ subscriptions_mutex = Free
    /\ call = [t \in Users |-> NoCall]
    /\ stream = <<>>
    /\ calls = 0
    /\ fed = [source |-> "", seq |-> 0, idx |-> 0, has |-> FALSE]
    /\ emitted = <<>>
    /\ feeds = 0
    /\ late = {}
    /\ upto = [source \in {"A", "B"} |-> 0]

\* a connection that never reports being torn down
always_connected == TRUE

\* Connection.is_connected(), line 139 (udpm 193)
is_connected == ~disconnected

\* ------------------------------------------------------- the socket's writes
\* sendall on the tcpq socket succeeds while the socket is open and the relay
\* has not reset the connection; after the relay's FIN one more write is still
\* accepted (and lost), which brings the reset.
WriteOk == sock = "open" /\ peer # "rst"
WriteFails == ~WriteOk

\* The socket accepts frame f: it is on the wire, and the relay, if it is
\* there, reacts to it.
Written(f) ==
    /\ wire' = Append(wire, f)
    /\ peer' = IF peer = "fin" THEN "rst" ELSE peer
    /\ inb' = IF /\ peer = "up"
                 /\ FrameType(f) = PUBLISH
                 /\ RelayDelivers(wire, FrameChannel(f))
              THEN inb \o PublishFrame(FrameChannel(f), FrameData(f))
              ELSE inb

\* The relay closes the stream (FIN) or the connection breaks (RST).
PeerCloses ==
    /\ proto = "tcpq"
    /\ peer = "up"
    /\ May("close")
    /\ done' = [done EXCEPT !["close"] = @ + 1]
    /\ peer' \in {"fin", "rst"}
    /\ UNCHANGED <<aux, reg, udp, ctor, proto, disconnected, sock, inb, wire,
                   subscriptions, sequence_number, fragment_buffers, subs,
                   stack, thr, ret, handles, hist>>

\* ------------------------------------------------------- the user's API calls
\* The user threads are alike: a thread makes its first call only once the
\* threads before it have made theirs.
Idle(t) ==
    /\ t \in Users
    /\ stack[t] = <<>>
    /\ \A u \in Users : u[2] < t[2] => (stack[u] # <<>> \/ ret[u] # "none")

Begin(t, op, f) ==
    /\ May(op)
    /\ done' = [done EXCEPT ![op] = @ + 1]
    /\ stack' = [stack EXCEPT ![t] = <<f>>]
    /\ ret' = [ret EXCEPT ![t] = "pending"]
    /\ UNCHANGED <<aux, reg, udp, ctor, conn, subs, thr, handles, hist>>

CallPublish(t, channel, data) ==
    /\ Idle(t)
    /\ Begin(t, "publish", Frame("pub1", 0, channel, data))

CallSubscribe(t, channel) ==
    /\ Idle(t)
    /\ nsubs + Cardinality({u \in Users : At(u, "sub1")}) < MaxSubs
    /\ Begin(t, "subscribe", Frame("sub1", 0, channel, <<>>))

CallUnsubscribe(t, s) ==
    /\ Idle(t)
    /\ s \in handles
    /\ Begin(t, "unsubscribe", Frame("uns1", s, <<>>, <<>>))

CallDisconnect(t) ==
    /\ Idle(t)
    /\ Begin(t, "disconnect", Frame("dis1", 0, <<>>, <<>>))

\* ------------------------------------------------------------------ publish
\* publish, lines 163-164 (udpm 161-162): the live check
PublishCheck(t) ==
    /\ At(t, "pub1")
    /\ IF ~is_connected
       THEN ReturnTo(t, <<>>, "NotConnected")
       ELSE stack' = Goto(t, "pub2") /\ UNCHANGED ret
    /\ UNCHANGED <<aux, reg, udp, ctor, conn, subs, thr, done, handles, hist>>

\* a publish that lets a failed write pass without a teardown
TcpqPublishWriteQuiet(t) ==
    /\ At(t, "pub2")
    /\ proto = "tcpq"
    /\ \/ /\ WriteOk
          /\ Written(PublishFrame(Top(t).channel, Top(t).data))
       \/ /\ WriteFails
          /\ UNCHANGED <<wire, peer, inb>>
    /\ ReturnTo(t, <<>>, "ok")
    /\ UNCHANGED <<aux, reg, udp, ctor, proto, disconnected, sock,
                   subscriptions, sequence_number, fragment_buffers, subs, thr,
                   done, handles, hist>>

\* tcpq publish, lines 168-178: the frame written under _publish_mutex, or the
\* write fails and publish goes on to disconnect()
TcpqPublishWrite(t) ==
    /\ At(t, "pub2")
    /\ proto = "tcpq"
    /\ \/ /\ WriteOk
          /\ Written(PublishFrame(Top(t).channel, Top(t).data))
          /\ ReturnTo(t, <<>>, "ok")
       \/ /\ WriteFails
          /\ stack' = Call(t, "pub3", Frame("dis1", 0, <<>>, <<>>))
          /\ UNCHANGED <<wire, peer, inb, ret>>
    /\ UNCHANGED <<aux, reg, udp, ctor, proto, disconnected, sock,
                   subscriptions, sequence_number, fragment_buffers, subs, thr,
                   done, handles, hist>>

\* udpm publish, lines 164-173: under _publish_mutex the datagrams are sent and
\* the sequence number goes up by one; nothing catches what sendto raises.
UdpmPublishSend(t) ==
    /\ At(t, "pub2")
    /\ proto = "udpm"
    /\ LET channel == Top(t).channel
           data == Top(t).data
           tooLarge == /\ Len(channel) + 1 + Len(data) >= FRAGMENTATION_THRESHOLD
                       /\ TooMany(FragmentCount(Len(channel) + 1 + Len(data)))
           dgrams == PublishDatagrams(channel, data, sequence_number)
       IN  IF tooLarge
           THEN /\ ReturnTo(t, <<>>, "ValueError")
                /\ UNCHANGED <<wire, inb, sequence_number>>
           ELSE IF sock = "open"
           THEN /\ wire' = wire \o dgrams
                /\ inb' = inb \o [i \in 1 .. Len(dgrams) |->
                                     [data |-> dgrams[i], source |-> SELF]]
                /\ sequence_number' = sequence_number + 1
                /\ ReturnTo(t, <<>>, "ok")
           ELSE /\ ReturnTo(t, <<>>, "OSError")
                /\ UNCHANGED <<wire, inb, sequence_number>>
    /\ UNCHANGED <<aux, reg, udp, ctor, proto, disconnected, sock, peer,
                   subscriptions, fragment_buffers, subs, thr, done, handles,
                   hist>>

\* ---------------------------------------------------------------- subscribe
\* subscribe, lines 114-119: the live check, then the Subscription is
\* constructed, which starts its worker thread
SubscribeCheck(t) ==
    /\ At(t, "sub1")
    /\ IF ~is_connected
       THEN /\ ReturnTo(t, <<>>, "absent")
            /\ UNCHANGED <<subs, thr>>
       ELSE LET s == nsubs + 1
            IN  /\ nsubs' = s
                /\ pattern' = [pattern EXCEPT ![s] = Top(t).channel]
                /\ thr' = [thr EXCEPT ![WorkerOf(s)] = "alive"]
                /\ stack' = [SetTop(t, [Top(t) EXCEPT !.pc = "sub2", !.s = s])
                                EXCEPT ![WorkerOf(s)] =
                                    <<Frame("w1", s, <<>>, <<>>)>>]
                /\ UNCHANGED <<inactive, queue, ret>>
    /\ UNCHANGED <<aux, reg, udp, ctor, conn, done, handles, hist>>

\* a subscribe that leaves the live-set as it is
SubscribeAddNothing(t) ==
    /\ At(t, "sub2")
    /\ stack' = Goto(t, "sub3")
    /\ UNCHANGED <<aux, reg, udp, ctor, conn, subs, thr, ret, done, handles,
                   hist>>

\* subscribe, lines 121-122 (udpm 186-189): added to the live-set under
\* _subscriptions_mutex; the udpm subscribe returns here
SubscribeAdd(t) ==
    /\ At(t, "sub2")
    /\ subscriptions' = subscriptions \cup {Top(t).s}
    /\ IF proto = "udpm"
       THEN ReturnTo(t, <<>>, "sub") /\ handles' = handles \cup {Top(t).s}
       ELSE stack' = Goto(t, "sub3") /\ UNCHANGED <<ret, handles>>
    /\ UNCHANGED <<aux, reg, udp, ctor, proto, disconnected, sock, peer, inb,
                   wire, sequence_number, fragment_buffers, subs, thr, done,
                   hist>>

\* tcpq subscribe, lines 124-135: the SUBSCRIBE frame, written without the
\* _publish_mutex; a failed write goes on to disconnect() and then None
SubscribeWrite(t) ==
    /\ At(t, "sub3")
    /\ \/ /\ WriteOk
          /\ Written(SubscribeFrame(Top(t).channel))
          /\ ReturnTo(t, <<>>, "sub")
          /\ handles' = handles \cup {Top(t).s}
       \/ /\ WriteFails
          /\ stack' = Call(t, "sub4", Frame("dis1", 0, <<>>, <<>>))
          /\ UNCHANGED <<wire, peer, inb, ret, handles>>
    /\ UNCHANGED <<aux, reg, udp, ctor, proto, disconnected, sock,
                   subscriptions, sequence_number, fragment_buffers, subs, thr,
                   done, hist>>

\* --------------------------------------------------------------- disconnect
\* a disconnect that runs its teardown whatever the flag says
DisconnectUnguarded(t) ==
    /\ At(t, "dis1")
    /\ stack' = Goto(t, "dis2")
    /\ UNCHANGED <<aux, reg, udp, ctor, conn, subs, thr, ret, done, handles,
                   hist>>

\* disconnect, lines 143-144: already torn down, return
DisconnectCheck(t) ==
    /\ At(t, "dis1")
    /\ IF ~is_connected
       THEN /\ ReturnTo(t, Below(t), "ok")
            /\ disconnectReturned' = (disconnectReturned \/ t # Receiver)
       ELSE stack' = Goto(t, "dis2") /\ UNCHANGED <<ret, disconnectReturned>>
    /\ UNCHANGED <<aux, reg, udp, ctor, conn, subs, thr, done, handles,
                   enqueued, delivered, unsubReturned>>

\* a teardown that flips the flag where it should set it
DisconnectFlip(t) ==
    /\ At(t, "dis2")
    /\ disconnected' = ~disconnected
    /\ stack' = Goto(t, "dis3")
    /\ UNCHANGED <<aux, reg, udp, ctor, proto, sock, peer, inb, wire,
                   subscriptions, sequence_number, fragment_buffers, subs, thr,
                   ret, done, handles, hist>>

\* disconnect, line 146: self._disconnected.set()
DisconnectSet(t) ==
    /\ At(t, "dis2")
    /\ disconnected' = TRUE
    /\ stack' = Goto(t, "dis3")
    /\ UNCHANGED <<aux, reg, udp, ctor, proto, sock, peer, inb, wire,
                   subscriptions, sequence_number, fragment_buffers, subs, thr,
                   ret, done, handles, hist>>

\* disconnect, lines 148-149: shutdown(SHUT_RDWR) under suppress(OSError).  It
\* raises on a closed socket and on a reset connection, and on the unconnected
\* udpm socket (ENOTCONN, after the kernel has marked the socket shut down); the
\* close() of line 150 is then skipped.
DisconnectShutdown(t) ==
    /\ At(t, "dis3")
    /\ IF proto = "udpm"
       THEN sock' = "shut" /\ stack' = Goto(t, "dis4")
       ELSE IF sock = "closed" \/ peer = "rst"
       THEN sock' = sock /\ stack' = Goto(t, "dis4")
       ELSE sock' = "shut" /\ stack' = Goto(t, "dis3b")
    /\ UNCHANGED <<aux, reg, udp, ctor, proto, disconnected, peer, inb, wire,
                   subscriptions, sequence_number, fragment_buffers, subs, thr,
                   ret, done, handles, hist>>

\* disconnect, line 150: self._sock.close()
DisconnectClose(t) ==
    /\ At(t, "dis3b")
    /\ sock' = "closed"
    /\ stack' = Goto(t, "dis4")
    /\ UNCHANGED <<aux, reg, udp, ctor, proto, disconnected, peer, inb, wire,
                   subscriptions, sequence_number, fragment_buffers, subs, thr,
                   ret, done, handles, hist>>

\* disconnect, lines 152-154: the live-set copied and emptied under
\* _subscriptions_mutex; with nothing in the copy the loop of line 156 is over
DisconnectSnapshot(t) ==
    /\ At(t, "dis4")
    /\ stack' = SetTop(t, [Top(t) EXCEPT
                              !.pc = IF subscriptions = {} THEN "dis6" ELSE "dis5",
                              !.todo = subscriptions])
    /\ subscriptions' = {}
    /\ UNCHANGED <<aux, reg, udp, ctor, proto, disconnected, sock, peer, inb,
                   wire, sequence_number, fragment_buffers, subs, thr, ret,
                   done, handles, hist>>

\* disconnect, lines 156-157: unsubscribe() on each Subscription of the copy,
\* in the order the set iterates
DisconnectUnsubscribeEach(t) ==
    /\ At(t, "dis5")
    /\ \E s \in Top(t).todo :
           stack' = [stack EXCEPT ![t] =
               Append([stack[t] EXCEPT ![Len(stack[t])].todo = @ \ {s}],
                      Frame("uns1", s, <<>>, <<>>))]
    /\ UNCHANGED <<aux, reg, udp, ctor, conn, subs, thr, ret, done, handles,
                   hist>>

\* disconnect, line 159: join the receiver thread.  Thread.join raises
\* RuntimeError when the thread joins itself.
DisconnectJoin(t) ==
    /\ At(t, "dis6")
    /\ IF t = Receiver
       THEN Raise(t) /\ UNCHANGED <<ret, disconnectReturned>>
       ELSE /\ Ended(Receiver)
            /\ ReturnTo(t, Below(t), "ok")
            /\ disconnectReturned' = TRUE
            /\ UNCHANGED thr
    /\ UNCHANGED <<aux, reg, udp, ctor, conn, subs, done, handles, enqueued,
                   delivered, unsubReturned>>

\* -------------------------------------------------------------- unsubscribe
\* an unsubscribe that runs whatever the flag says
UnsubscribeUnguarded(t) ==
    /\ At(t, "uns1")
    /\ stack' = Goto(t, "uns2")
    /\ UNCHANGED <<aux, reg, udp, ctor, conn, subs, thr, ret, done, handles,
                   hist>>

\* Subscription.unsubscribe, lines 65-66: already inactive, return
UnsubscribeCheck(t) ==
    /\ At(t, "uns1")
    /\ IF inactive[Top(t).s]
       THEN /\ ReturnTo(t, Below(t), "ok")
            /\ unsubReturned' = [unsubReturned EXCEPT ![Top(t).s] = TRUE]
       ELSE stack' = Goto(t, "uns2") /\ UNCHANGED <<ret, unsubReturned>>
    /\ UNCHANGED <<aux, reg, udp, ctor, conn, subs, thr, done, handles,
                   enqueued, delivered, disconnectReturned>>

\* an unsubscribe that flips the Event where it should set it
UnsubscribeFlip(t) ==
    /\ At(t, "uns2")
    /\ inactive' = [inactive EXCEPT ![Top(t).s] = ~@]
    /\ stack' = Goto(t, "hook1")
    /\ UNCHANGED <<aux, reg, udp, ctor, conn, nsubs, pattern, queue, thr, ret,
                   done, handles, hist>>

\* unsubscribe, line 68: self._inactive.set()
UnsubscribeSet(t) ==
    /\ At(t, "uns2")
    /\ inactive' = [inactive EXCEPT ![Top(t).s] = TRUE]
    /\ stack' = Goto(t, "hook1")
    /\ UNCHANGED <<aux, reg, udp, ctor, conn, nsubs, pattern, queue, thr, ret,
                   done, handles, hist>>

\* Connection._unsubscribe_callback, lines 214-215 (udpm 216-217): discarded
\* from the live-set under _subscriptions_mutex; the udpm hook ends here
UnsubscribeCallbackDiscard(t) ==
    /\ At(t, "hook1")
    /\ subscriptions' = subscriptions \ {Top(t).s}
    /\ stack' = Goto(t, IF proto = "udpm" THEN "uns4" ELSE "hook2")
    /\ UNCHANGED <<aux, reg, udp, ctor, proto, disconnected, sock, peer, inb,
                   wire, sequence_number, fragment_buffers, subs, thr, ret,
                   done, handles, hist>>

\* tcpq _unsubscribe_callback, lines 217-227: the UNSUBSCRIBE frame, written
\* without the _publish_mutex; a failed write goes on to disconnect()
UnsubscribeCallbackWrite(t) ==
    /\ At(t, "hook2")
    /\ \/ /\ WriteOk
          /\ Written(UnsubscribeFrame(pattern[Top(t).s]))
          /\ stack' = Goto(t, "uns4")
       \/ /\ WriteFails
          /\ stack' = Call(t, "uns4", Frame("dis1", 0, <<>>, <<>>))
          /\ UNCHANGED <<wire, peer, inb>>
    /\ UNCHANGED <<aux, reg, udp, ctor, proto, disconnected, sock,
                   subscriptions, sequence_number, fragment_buffers, subs, thr,
                   ret, done, handles, hist>>

\* unsubscribe, line 70: self._queue.put(None)
UnsubscribePutSentinel(t) ==
    /\ At(t, "uns4")
    /\ queue' = [queue EXCEPT ![Top(t).s] = Append(@, Sentinel)]
    /\ stack' = Goto(t, "uns5")
    /\ UNCHANGED <<aux, reg, udp, ctor, conn, nsubs, pattern, inactive, thr,
                   ret, done, handles, hist>>

\* unsubscribe, line 72: join the worker thread (RuntimeError on itself)
UnsubscribeJoin(t) ==
    /\ At(t, "uns5")
    /\ IF t = WorkerOf(Top(t).s)
       THEN Raise(t) /\ UNCHANGED <<ret, unsubReturned>>
       ELSE /\ Ended(WorkerOf(Top(t).s))
            /\ ReturnTo(t, Below(t), "ok")
            /\ unsubReturned' = [unsubReturned EXCEPT ![Top(t).s] = TRUE]
            /\ UNCHANGED thr
    /\ UNCHANGED <<aux, reg, udp, ctor, conn, subs, done, handles, enqueued,
                   delivered, disconnectReturned>>

\* ------------------------------------------------- the Subscription's worker
\* _process_queue_thread, line 75: while self.is_active()
WorkerCheck(t) ==
    /\ At(t, "w1")
    /\ IF inactive[Top(t).s]
       THEN /\ stack' = [stack EXCEPT ![t] = <<>>]
            /\ thr' = [thr EXCEPT ![t] = "exited"]
       ELSE stack' = Goto(t, "w2") /\ UNCHANGED thr
    /\ UNCHANGED <<aux, reg, udp, ctor, conn, subs, ret, done, handles, hist>>

\* a queue that hands out its newest item first
QueueGetNewest(q) == [item |-> q[Len(q)], rest |-> SubSeq(q, 1, Len(q) - 1)]

\* Queue.get() on a queue that is not empty: its oldest item
QueueGet(q) == [item |-> Head(q), rest |-> Tail(q)]

\* _process_queue_thread, lines 76-81: one item taken from the queue (blocking
\* while it is empty); None ends the thread, a message is handed to the
\* callback
WorkerGet(t) ==
    /\ At(t, "w2")
    /\ queue[Top(t).s] # <<>>
    /\ LET s == Top(t).s
           lcm_msg == QueueGet(queue[s]).item
       IN  /\ queue' = [queue EXCEPT ![s] = QueueGet(@).rest]
           /\ IF lcm_msg = Sentinel
              THEN /\ stack' = [stack EXCEPT ![t] = <<>>]
                   /\ thr' = [thr EXCEPT ![t] = "exited"]
                   /\ UNCHANGED delivered
              ELSE /\ delivered' = [delivered EXCEPT ![s] = Append(@, lcm_msg)]
                   /\ stack' = Goto(t, "w1")
                   /\ UNCHANGED thr
    /\ UNCHANGED <<aux, reg, udp, ctor, conn, nsubs, pattern, inactive, ret,
                   done, handles, enqueued, unsubReturned, disconnectReturned>>

\* ------------------------------------------------------------- the receiver
\* _handle_subscriptions_thread, line 201 (udpm 224): while self.is_connected().
\* Torn down, the loop ends, the disconnect() of line 211 (udpm 230) returns at
\* its own check and the thread is over.
ReceiverCheck(t) ==
    /\ At(t, "r1")
    /\ IF ~is_connected
       THEN /\ stack' = [stack EXCEPT ![t] = <<>>]
            /\ thr' = [thr EXCEPT ![t] = "exited"]
       ELSE stack' = Goto(t, "r2") /\ UNCHANGED thr
    /\ UNCHANGED <<aux, reg, udp, ctor, conn, subs, ret, done, handles, hist>>

\* tcpq, lines 202-205 and 211: _read_lcm_msg blocks until it has a message;
\* recv raises on a closed socket and on a reset connection, which breaks the
\* loop and goes on to disconnect().  After shutdown or the relay's FIN the
\* stream is at its end and recv returns what is left, b"" in the end, without
\* raising.
TcpqReceiverRead(t) ==
    /\ At(t, "r2")
    /\ proto = "tcpq"
    /\ IF sock = "closed" \/ peer = "rst"
       THEN /\ stack' = Call(t, "r5", Frame("dis1", 0, <<>>, <<>>))
            /\ inb' = inb
       ELSE \E k \in 1 .. 4 :
                LET r == ReadLcmMsg(inb, k, sock = "shut" \/ peer = "fin")
                IN  /\ r.ok
                    /\ inb' = r.rest
                    /\ stack' = SetTop(t, [Top(t) EXCEPT !.pc = "r3",
                                              !.channel = r.msg.channel,
                                              !.data = r.msg.data])
    /\ UNCHANGED <<aux, reg, udp, ctor, proto, disconnected, sock, peer, wire,
                   subscriptions, sequence_number, fragment_buffers, subs, thr,
                   ret, done, handles, hist>>

\* udpm, lines 225-228 and 293-305: select with its timeout, then
\* _read_lcm_msg, which returns at once when torn down and else takes one
\* datagram; a datagram that yields no message goes back to the loop
UdpmReceiverRead(t) ==
    /\ At(t, "r2")
    /\ proto = "udpm"
    /\ IF ~is_connected \/ inb = <<>>
       THEN /\ stack' = Goto(t, "r1")
            /\ UNCHANGED <<inb, fragment_buffers>>
       ELSE LET r == ReadDatagram(Head(inb).data, Head(inb).source,
                                  fragment_buffers)
            IN  /\ inb' = Tail(inb)
                /\ fragment_buffers' = r.buffers
                /\ stack' = IF r.has
                            THEN SetTop(t, [Top(t) EXCEPT !.pc = "r3",
                                               !.channel = r.msg.channel,
                                               !.data = r.msg.data])
                            ELSE Goto(t, "r1")
    /\ UNCHANGED <<aux, reg, udp, ctor, proto, disconnected, sock, peer, wire,
                   subscriptions, sequence_number, subs, thr, ret, done,
                   handles, hist>>

\* Subscription.receive, lines 49-53, on a member of the live-set: the message
\* is put when the Subscription is active and its pattern matches
Receives(s, channel, data) ==
    s \in subscriptions /\ ~inactive[s] /\ Matches(pattern[s], channel)

\* lines 207-209 (udpm 236-238): the fan-out under _subscriptions_mutex
ReceiverFanOut(t) ==
    /\ At(t, "r3")
    /\ LET channel == Top(t).channel
           data == Top(t).data
           item(s) == [channel |-> channel, data |-> data,
                       n |-> Len(enqueued[s]) + 1]
       IN  /\ queue' = [s \in Subs |->
                           IF Receives(s, channel, data)
                           THEN Append(queue[s], item(s)) ELSE queue[s]]
           /\ enqueued' = [s \in Subs |->
                              IF Receives(s, channel, data)
                              THEN Append(enqueued[s], item(s)) ELSE enqueued[s]]
    /\ stack' = SetTop(t, Frame("r1", 0, <<>>, <<>>))
    /\ UNCHANGED <<aux, reg, udp, ctor, conn, nsubs, pattern, inactive, thr,
                   ret, done, handles, delivered, unsubReturned,
                   disconnectReturned>>

\* the receiver thread ends when the disconnect() after its loop returns
ReceiverExit(t) ==
    /\ At(t, "r5")
    /\ stack' = [stack EXCEPT ![t] = <<>>]
    /\ thr' = [thr EXCEPT ![t] = "exited"]
    /\ UNCHANGED <<aux, reg, udp, ctor, conn, subs, ret, done, handles, hist>>

\* --------------------------------------------------------- the specification
Next ==
    \/ PeerCloses
    \/ \E t \in Users, channel \in Channels, data \in Datas :
           CallPublish(t, channel, data)
    \/ \E t \in Users, channel \in Patterns : CallSubscribe(t, channel)
    \/ \E t \in Users, s \in Subs : CallUnsubscribe(t, s)
    \/ \E t \in Users : CallDisconnect(t)
    \/ \E t \in Threads : PublishCheck(t)
    \/ \E t \in Threads : TcpqPublishWrite(t)
    \/ \E t \in Threads : UdpmPublishSend(t)
    \/ \E t \in Threads : SubscribeCheck(t)
    \/ \E t \in Threads : SubscribeAdd(t)
    \/ \E t \in Threads : SubscribeWrite(t)
    \/ \E t \in Threads : DisconnectCheck(t)
    \/ \E t \in Threads : DisconnectSet(t)
    \/ \E t \in Threads : DisconnectShutdown(t)
    \/ \E t \in Threads : DisconnectClose(t)
    \/ \E t \in Threads : DisconnectSnapshot(t)
    \/ \E t \in Threads : DisconnectUnsubscribeEach(t)
    \/ \E t \in Threads : DisconnectJoin(t)
    \/ \E t \in Threads : UnsubscribeCheck(t)
    \/ \E t \in Threads : UnsubscribeSet(t)
    \/ \E t \in Threads : UnsubscribeCallbackDiscard(t)
    \/ \E t \in Threads : UnsubscribeCallbackWrite(t)
    \/ \E t \in Threads : UnsubscribePutSentinel(t)
    \/ \E t \in Threads : UnsubscribeJoin(t)
    \/ \E t \in Threads : WorkerCheck(t)
    \/ \E t \in Threads : WorkerGet(t)
    \/ \E t \in Threads : ReceiverCheck(t)
    \/ \E t \in Threads : TcpqReceiverRead(t)
    \/ \E t \in Threads : UdpmReceiverRead(t)
    \/ \E t \in Threads : ReceiverFanOut(t)
    \/ \E t \in Threads : ReceiverExit(t)

Spec == Init /\ [][Next]_vars

\* a step of thread t inside the call or the loop it is in; the calls the
\* users begin and the relay's failures are not among them
Runs(t) ==
    \/ PublishCheck(t) \/ TcpqPublishWrite(t) \/ UdpmPublishSend(t)
    \/ SubscribeCheck(t) \/ SubscribeAdd(t) \/ SubscribeWrite(t)
    \/ DisconnectCheck(t) \/ DisconnectSet(t) \/ DisconnectShutdown(t)
    \/ DisconnectClose(t) \/ DisconnectSnapshot(t)
    \/ DisconnectUnsubscribeEach(t) \/ DisconnectJoin(t)
    \/ UnsubscribeCheck(t) \/ UnsubscribeSet(t)
    \/ UnsubscribeCallbackDiscard(t) \/ UnsubscribeCallbackWrite(t)
    \/ UnsubscribePutSentinel(t) \/ UnsubscribeJoin(t)
    \/ WorkerCheck(t) \/ WorkerGet(t)
    \/ ReceiverCheck(t) \/ TcpqReceiverRead(t) \/ UdpmReceiverRead(t)
    \/ ReceiverFanOut(t) \/ ReceiverExit(t)

\* The threads are scheduled fairly: a thread that can take a step takes one
\* in the end.  Nothing obliges a user to make a call or the relay to fail.
SpecFair == Spec /\ \A t \in Threads : WF_vars(Runs(t))

\* The teardown on its own: the users subscribe and disconnect, the relay
\* fails, and nothing is published.  The threads are scheduled fairly.
NextDown ==
    \/ PeerCloses
    \/ \E t \in Users : CallSubscribe(t, ChA)
    \/ \E t \in Users : CallDisconnect(t)
    \/ \E t \in Threads : SubscribeCheck(t)
    \/ \E t \in Threads : SubscribeAdd(t)
    \/ \E t \in Threads : SubscribeWrite(t)
    \/ \E t \in Threads : DisconnectCheck(t)
    \/ \E t \in Threads : DisconnectSet(t)
    \/ \E t \in Threads : DisconnectShutdown(t)
    \/ \E t \in Threads : DisconnectClose(t)
    \/ \E t \in Threads : DisconnectSnapshot(t)
    \/ \E t \in Threads : DisconnectUnsubscribeEach(t)
    \/ \E t \in Threads : DisconnectJoin(t)
    \/ \E t \in Threads : UnsubscribeCheck(t)
    \/ \E t \in Threads : UnsubscribeSet(t)
    \/ \E t \in Threads : UnsubscribeCallbackDiscard(t)
    \/ \E t \in Threads : UnsubscribeCallbackWrite(t)
    \/ \E t \in Threads : UnsubscribePutSentinel(t)
    \/ \E t \in Threads : UnsubscribeJoin(t)
    \/ \E t \in Threads : WorkerCheck(t)
    \/ \E t \in Threads : WorkerGet(t)
    \/ \E t \in Threads : ReceiverCheck(t)
    \/ \E t \in Threads : TcpqReceiverRead(t)
    \/ \E t \in Threads : UdpmReceiverRead(t)
    \/ \E t \in Threads : ReceiverFanOut(t)
    \/ \E t \in Threads : ReceiverExit(t)

SpecDown == Init /\ [][NextDown]_vars /\ \A t \in Threads : WF_vars(Runs(t))

\* ------------------------------------------------- callbacks that call back
\* _process_queue_thread, lines 76-81, with a callback that calls op on the API:
\* unsubscribe() on the Subscription it belongs to, or disconnect() on the
\* connection.  The call runs on the Subscription's worker thread.
WorkerCallbackCalls(t, op) ==
    /\ At(t, "w2")
    /\ queue[Top(t).s] # <<>>
    /\ QueueGet(queue[Top(t).s]).item # Sentinel
    /\ LET s == Top(t).s
       IN  /\ queue' = [queue EXCEPT ![s] = QueueGet(@).rest]
           /\ delivered' = [delivered EXCEPT ![s] =
                                Append(@, QueueGet(queue[s]).item)]
           /\ stack' = IF op = "unsubscribe"
                       THEN Call(t, "w3u", Frame("uns1", s, <<>>, <<>>))
                       ELSE Call(t, "w3d", Frame("dis1", 0, <<>>, <<>>))
    /\ UNCHANGED <<aux, reg, udp, ctor, conn, nsubs, pattern, inactive, thr,
                   ret, done, handles, enqueued, unsubReturned,
                   disconnectReturned>>

\* what each Subscription's callback calls
CallbackOp(s) == IF s = 1 THEN "disconnect" ELSE "unsubscribe"

\* line 81: the callback returns and the worker goes back to its loop
CallbackReturns(t) ==
    /\ At(t, "w3u") \/ At(t, "w3d")
    /\ stack' = Goto(t, "w1")
    /\ UNCHANGED <<aux, reg, udp, ctor, conn, subs, thr, ret, done, handles,
                   hist>>

\* The users subscribe and publish, and it is the callbacks that unsubscribe
\* and disconnect.  The join of disconnect's line 159 is not among the steps:
\* the one disconnect() that gets past its check is the callback's, and it does
\* not get as far as that line.
NextCb ==
    \/ \E t \in Users, data \in Datas :
           done["publish"] < MaxCbPublishes /\ CallPublish(t, ChA, data)
    \/ \E t \in Users : CallSubscribe(t, ChA)
    \/ \E t \in Threads : PublishCheck(t)
    \/ \E t \in Threads : TcpqPublishWrite(t)
    \/ \E t \in Threads : UdpmPublishSend(t)
    \/ \E t \in Threads : SubscribeCheck(t)
    \/ \E t \in Threads : SubscribeAdd(t)
    \/ \E t \in Threads : SubscribeWrite(t)
    \/ \E t \in Threads : DisconnectCheck(t)
    \/ \E t \in Threads : DisconnectSet(t)
    \/ \E t \in Threads : DisconnectShutdown(t)
    \/ \E t \in Threads : DisconnectClose(t)
    \/ \E t \in Threads : DisconnectSnapshot(t)
    \/ \E t \in Threads : DisconnectUnsubscribeEach(t)
    \/ \E t \in Threads : UnsubscribeCheck(t)
    \/ \E t \in Threads : UnsubscribeSet(t)
    \/ \E t \in Threads : UnsubscribeCallbackDiscard(t)
    \/ \E t \in Threads : UnsubscribeCallbackWrite(t)
    \/ \E t \in Threads : UnsubscribePutSentinel(t)
    \/ \E t \in Threads : UnsubscribeJoin(t)
    \/ \E t \in Threads : WorkerCheck(t)
    \/ \E t \in Threads : WorkerGet(t)
    \/ \E t \in Threads : WorkerCallbackCalls(t, CallbackOp(Top(t).s))
    \/ \E t \in Threads : CallbackReturns(t)
    \/ \E t \in Threads : ReceiverCheck(t)
    \/ \E t \in Threads : TcpqReceiverRead(t)
    \/ \E t \in Threads : UdpmReceiverRead(t)
    \/ \E t \in Threads : ReceiverFanOut(t)
    \/ \E t \in Threads : ReceiverExit(t)

SpecCb == Init /\ [][NextCb]_vars

\* ------------------------------------------------------------- the registry
\* The URLs tried, and what urlparse makes of each: its scheme, and whether
\* its port is a number (.port raises ValueError when it is not).
Urls == {"127.0.0.1:7700", "bogus://", "tcpq://", "tcpq://127.0.0.1:7700",
         "tcpq://127.0.0.1:abc", "udpm://239.255.76.67:7667?ttl=1"}
Scheme(url) ==
    CASE url = "127.0.0.1:7700" -> ""
      [] url = "bogus://" -> "bogus"
      [] url \in {"tcpq://", "tcpq://127.0.0.1:7700", "tcpq://127.0.0.1:abc"} -> "tcpq"
      [] url = "udpm://239.255.76.67:7667?ttl=1" -> "udpm"
PortIsNumber(url) == url # "tcpq://127.0.0.1:abc"

ProviderNames == {"tcpq", "udpm", "bogus"}
ProviderClasses == {"LcmTcpqProvider", "BogusProvider"}

\* What the network does to a connection attempt: the TCP connection is
\* refused, the handshake cannot be sent, the relay answers with other bytes, the
\* read of the answer fails, or all goes well.
Nets == {"refused", "send_fails", "bad_reply", "recv_fails", "ok"}

\* LcmTcpqConnection.__init__ and _perform_handshake: what constructing the
\* connection raises, or "connection"
TcpqConnection(url, net) ==
    IF ~PortIsNumber(url) THEN "ValueError"
    ELSE IF net = "refused" THEN "OSError"
    ELSE IF net = "send_fails" THEN "RuntimeError"
    ELSE IF net = "recv_fails" THEN "OSError"
    ELSE IF net = "bad_reply" THEN "RuntimeError"
    ELSE "connection"

\* provider.connect(url) of each provider class: LcmTcpqProvider.connect, and
\* the BogusProvider of the tests, which always raises RuntimeError
ProviderConnect(provider, url, net) ==
    IF provider = "BogusProvider" THEN "RuntimeError"
    ELSE IF Scheme(url) # "tcpq" THEN "ValueError"
    ELSE TcpqConnection(url, net)

\* a connect that answers every failure with None
LcmConnectLenient(provs, url, net) ==
    IF Scheme(url) \notin DOMAIN provs
    THEN [result |-> "absent", invoked |-> "none"]
    ELSE [result |-> IF ProviderConnect(provs[Scheme(url)], url, net) = "connection"
                     THEN "connection" ELSE "absent",
          invoked |-> provs[Scheme(url)]]

\* Lcm.connect, lines 34-45: what it returns or raises, and the provider whose
\* connect it has called
LcmConnect(provs, url, net) ==
    IF Scheme(url) = ""
    THEN [result |-> "ValueError", invoked |-> "none"]
    ELSE IF Scheme(url) \notin DOMAIN provs
    THEN [result |-> "RuntimeError", invoked |-> "none"]
    ELSE LET r == ProviderConnect(provs[Scheme(url)], url, net)
         IN  [result |-> IF r \in {"RuntimeError", "ValueError"} THEN "absent" ELSE r,
              invoked |-> provs[Scheme(url)]]

Connect(url, net) ==
    /\ ncalls < MaxRegCalls
    /\ ncalls' = ncalls + 1
    /\ last' = [op |-> "connect", arg |-> url, provider |-> "none",
                override_existing |-> FALSE,
                result |-> LcmConnect(providers, url, net).result,
                invoked |-> LcmConnect(providers, url, net).invoked]
    /\ UNCHANGED <<aux, providers, conn, subs, stack, thr, ret, done, handles,
                   hist, udp, ctor>>

\* a registry that takes any registration
NeverCollides(provs, provider_name, override_existing) == FALSE

\* Lcm.register_provider, line 67: the name is taken and may not be replaced
Collides(provs, provider_name, override_existing) ==
    provider_name \in DOMAIN provs /\ ~override_existing

\* Lcm.register_provider, lines 67-73
RegisterProvider(provider_name, provider, override_existing) ==
    /\ ncalls < MaxRegCalls
    /\ ncalls' = ncalls + 1
    /\ IF Collides(providers, provider_name, override_existing)
       THEN /\ last' = [op |-> "register_provider", arg |-> provider_name,
                        provider |-> provider,
                        override_existing |-> override_existing,
                        result |-> "ValueError", invoked |-> "none"]
            /\ UNCHANGED providers
       ELSE /\ last' = [op |-> "register_provider", arg |-> provider_name,
                        provider |-> provider,
                        override_existing |-> override_existing,
                        result |-> "ok", invoked |-> "none"]
            /\ providers' = [n \in DOMAIN providers \cup {provider_name} |->
                                IF n = provider_name THEN provider ELSE providers[n]]
    /\ UNCHANGED <<aux, conn, subs, stack, thr, ret, done, handles, hist, udp,
                   ctor>>

NextReg ==
    \/ \E url \in Urls, net \in Nets : Connect(url, net)
    \/ \E provider_name \in ProviderNames, provider \in ProviderClasses,
          override_existing \in BOOLEAN :
           RegisterProvider(provider_name, provider, override_existing)

SpecReg == Init /\ [][NextReg]_vars

\* ------------------------------------------------- constructing a connection
\* LcmTcpqProvider.connect(url) and LcmTcpqConnection.__init__, a statement at
\* a time, with what the relay sends back in answer to the handshake.
GoodReply == MAGIC_SERVER \o PROTOCOL_VERSION
Replies ==
    {GoodReply}
        \cup {[GoodReply EXCEPT ![i] = (@ + 1) % 256] : i \in 1..8}
        \cup {[GoodReply EXCEPT ![i] = 255 - @] : i \in 1..8}
        \cup {SubSeq(GoodReply, 1, k) : k \in 0..7}

\* frames a caller that holds a connection has it write
UserFrames ==
    {PublishFrame(ChA, <<7>>), SubscribeFrame(ChA), UnsubscribeFrame(ChA)}

\* a client that looks at the magic number only
HandshakeAcceptsMagic(reply) == Take(reply, 4) = MAGIC_SERVER

\* _perform_handshake, line 186: the reply is the one expected
HandshakeAccepts(reply) == reply = MAGIC_SERVER \o PROTOCOL_VERSION

Made(pc, url, reply, result) ==
    [pc |-> pc, url |-> url, read |-> FALSE, reply |-> reply,
     result |-> result, receiver |-> FALSE, frames |-> <<>>]

Making(pc) == made.pc = pc

\* LcmTcpqProvider.connect, lines 237-245, and __init__, lines 87-94: the
\* scheme is checked, the port parsed and the TCP connection made or refused
MakeConnect(url, refused) ==
    /\ made.pc \in {"none", "done"}
    /\ makes < MaxMakes
    /\ makes' = makes + 1
    /\ made' = IF Scheme(url) # "tcpq" \/ ~PortIsNumber(url)
               THEN Made("done", url, <<>>, "ValueError")
               ELSE IF refused THEN Made("done", url, <<>>, "OSError")
               ELSE Made("connected", url, <<>>, "none")
    /\ UNCHANGED <<aux, conn, subs, stack, thr, ret, done, handles, hist, reg,
                   udp>>

\* _perform_handshake, lines 181-184: the client's magic and version go out,
\* or sendall raises, and only a ConnectionError is turned into RuntimeError
MakeSendHandshake(outcome) ==
    /\ Making("connected")
    /\ made' = IF outcome = "ok" THEN [made EXCEPT !.pc = "sent"]
               ELSE IF outcome = "ConnectionError"
               THEN [made EXCEPT !.pc = "done", !.result = "RuntimeError"]
               ELSE [made EXCEPT !.pc = "done", !.result = "OSError"]
    /\ UNCHANGED <<aux, conn, subs, stack, thr, ret, done, handles, hist, reg,
                   udp, makes>>

\* _perform_handshake, lines 186-187: recv(8, MSG_WAITALL) gives the relay's
\* reply, short if the relay closed early, and it is compared
MakeRecvHandshake(reply) ==
    /\ Making("sent")
    /\ made' = IF HandshakeAccepts(reply)
               THEN [made EXCEPT !.pc = "shaken", !.read = TRUE,
                                 !.reply = reply]
               ELSE [made EXCEPT !.pc = "done", !.read = TRUE,
                                 !.reply = reply, !.result = "RuntimeError"]
    /\ UNCHANGED <<aux, conn, subs, stack, thr, ret, done, handles, hist, reg,
                   udp, makes>>

\* _perform_handshake, line 186: recv raises
MakeRecvFails ==
    /\ Making("sent")
    /\ made' = [made EXCEPT !.pc = "done", !.result = "OSError"]
    /\ UNCHANGED <<aux, conn, subs, stack, thr, ret, done, handles, hist, reg,
                   udp, makes>>

\* __init__, lines 97-106: the fields are set and the receiver thread started;
\* the caller gets the connection
MakeStart ==
    /\ Making("shaken")
    /\ made' = [made EXCEPT !.pc = "done", !.result = "LcmTcpqConnection",
                            !.receiver = TRUE]
    /\ UNCHANGED <<aux, conn, subs, stack, thr, ret, done, handles, hist, reg,
                   udp, makes>>

\* publish, subscribe or unsubscribe on the connection the caller was given:
\* lines 126, 170 and 220 write a frame
MadeWrites(f) ==
    /\ Making("done")
    /\ made.result = "LcmTcpqConnection"
    /\ made.frames = <<>>
    /\ made' = [made EXCEPT !.frames = Append(@, f)]
    /\ UNCHANGED <<aux, conn, subs, stack, thr, ret, done, handles, hist, reg,
                   udp, makes>>

NextMake ==
    \/ \E url \in Urls, refused \in BOOLEAN : MakeConnect(url, refused)
    \/ \E outcome \in {"ok", "ConnectionError", "OSError"} :
           MakeSendHandshake(outcome)
    \/ \E reply \in Replies : MakeRecvHandshake(reply)
    \/ MakeRecvFails
    \/ MakeStart
    \/ \E f \in UserFrames : MadeWrites(f)

InitMake == Init /\ proto = "tcpq"
SpecMake == InitMake /\ [][NextMake]_vars

\* ----------------------------------------------------------- the udpm codec
\* One caller publishes on a udpm connection and the reader callback takes the
\* datagrams in the order they were sent, all from the one source address.
\* Here inb holds the datagrams sent and not yet read, and fragment_buffers
\* the reader's buffers, with their bytes as runs (see Pack).
\* The data published is Bytes(n); it begins with a zero byte.
Bytes(n) == [i \in 1..n |-> (i - 1) % 251]

\* The codec's byte strings are long, and the state keeps each one as its
\* runs: a run is a first byte and a length, and stands for the bytes that
\* count up from the first one modulo 251.  Pack gives the runs of a byte
\* string and Unpack the byte string of some runs; every action computes on
\* the byte strings themselves.
RunStarts(bs) ==
    {i \in 1 .. Len(bs) : i = 1 \/ bs[i] # (bs[i - 1] + 1) % 251}
RunsFrom(bs, starts) ==
    LET nth(k) == CHOOSE i \in starts :
                      Cardinality({j \in starts : j < i}) = k - 1
        end(k) == IF k = Cardinality(starts) THEN Len(bs) + 1 ELSE nth(k + 1)
    IN  [k \in 1 .. Cardinality(starts) |->
            [first |-> bs[nth(k)], len |-> end(k) - nth(k)]]
Pack(bs) ==
    CHOOSE runs \in {RunsFrom(b, starts) :
                         b \in {bs}, starts \in {RunStarts(bs)}} : TRUE
RunBytes(run) ==
    [j \in 1 .. run.len |->
        IF j = 1 THEN run.first ELSE (run.first + j - 1) % 251]
RECURSIVE Unpack(_)
Unpack(runs) ==
    IF runs = <<>> THEN <<>> ELSE RunBytes(Head(runs)) \o Unpack(Tail(runs))
PackBuffers(buffers) ==
    [k \in DOMAIN buffers |-> [buffers[k] EXCEPT !.data = Pack(@)]]
UnpackBuffers(buffers) ==
    [k \in DOMAIN buffers |-> [buffers[k] EXCEPT !.data = Unpack(@)]]
DataLengths == {0, 63997, 63998, 127997, 127998, 127999}

\* Payload lengths too long to write out, as the pair of
\* payload_length // FRAGMENTATION_THRESHOLD and
\* payload_length % FRAGMENTATION_THRESHOLD.
HugeLengths == {<<MAX_FRAGMENTS, 0>>, <<MAX_FRAGMENTS, 1>>, <<MAX_FRAGMENTS + 1, 0>>}

\* the record of a publish() call of payload length
\* blocks * FRAGMENTATION_THRESHOLD + rest
Trip(channel, blocks, rest, result, sent) ==
    [channel |-> channel, blocks |-> blocks, rest |-> rest, result |-> result,
     sent |-> sent, before |-> trip.result]

\* LcmUdpmConnection.publish, lines 160-173, as one call of the one caller
UdpmPublish(channel, n) ==
    /\ proto = "udpm"
    /\ trips < MaxTrips
    /\ inb = <<>>
    /\ trips' = trips + 1
    /\ out' = <<>>
    /\ \E dgrams \in {PublishDatagrams(channel, Bytes(n), sequence_number)} :
       LET payload_length == Len(channel) + 1 + n
           blocks == payload_length \div FRAGMENTATION_THRESHOLD
           rest == payload_length % FRAGMENTATION_THRESHOLD
       IN  IF ~is_connected
           THEN /\ trip' = Trip(channel, blocks, rest, "NotConnected", 0)
                /\ UNCHANGED <<inb, sequence_number>>
           ELSE IF /\ payload_length >= FRAGMENTATION_THRESHOLD
                   /\ TooMany(FragmentCount(payload_length))
           THEN /\ trip' = Trip(channel, blocks, rest, "ValueError", 0)
                /\ UNCHANGED <<inb, sequence_number>>
           ELSE /\ trip' = Trip(channel, blocks, rest, "ok", Len(dgrams))
                /\ inb' = [i \in 1 .. Len(dgrams) |->
                              [data |-> Pack(dgrams[i]), source |-> SELF]]
                /\ sequence_number' = sequence_number + 1
    /\ UNCHANGED <<aux, reg, ctor, proto, disconnected, sock, peer, wire,
                   subscriptions, fragment_buffers, subs, stack, thr, ret, done,
                   handles, hist>>

\* publish, lines 160-173 and 316-323, of a payload of
\* blocks * FRAGMENTATION_THRESHOLD + rest bytes.  Its length is all that is
\* kept of it: the datagrams of a publish this long that goes through are
\* counted and not followed to the reader.
UdpmPublishHuge(channel, blocks, rest) ==
    /\ proto = "udpm"
    /\ trips < MaxTrips
    /\ inb = <<>>
    /\ trips' = trips + 1
    /\ out' = <<>>
    /\ LET fragment_count == FragmentCountOf(blocks, rest)
       IN  IF ~is_connected
           THEN /\ trip' = Trip(channel, blocks, rest, "NotConnected", 0)
                /\ UNCHANGED sequence_number
           ELSE IF TooMany(fragment_count)
           THEN /\ trip' = Trip(channel, blocks, rest, "ValueError", 0)
                /\ UNCHANGED sequence_number
           ELSE /\ trip' = Trip(channel, blocks, rest, "ok", fragment_count)
                /\ sequence_number' = sequence_number + 1
    /\ UNCHANGED <<aux, reg, ctor, proto, disconnected, sock, peer, inb, wire,
                   subscriptions, fragment_buffers, subs, stack, thr, ret, done,
                   handles, hist>>

\* LcmUdpmConnection._read_lcm_msg, lines 293-305, on the next datagram; no
\* Subscription is there to take the message
UdpmReadLcmMsg ==
    /\ proto = "udpm"
    /\ is_connected
    /\ inb # <<>>
    /\ \E data \in {Unpack(Head(inb).data)},
          buffers \in {UnpackBuffers(fragment_buffers)} :
       \E r \in {ReadDatagram(data, Head(inb).source, buffers)} :
           /\ inb' = Tail(inb)
           /\ fragment_buffers' = PackBuffers(r.buffers)
           /\ out' = IF r.has
                     THEN Append(out, [channel |-> r.msg.channel,
                                       data |-> Pack(r.msg.data)])
                     ELSE out
    /\ UNCHANGED <<aux, reg, ctor, proto, disconnected, sock, peer, wire,
                   subscriptions, sequence_number, subs, stack, thr, ret, done,
                   handles, hist, trip, trips>>

NextUdpm ==
    \/ \E channel \in Channels, n \in DataLengths : UdpmPublish(channel, n)
    \/ \E channel \in Channels, l \in HugeLengths :
           UdpmPublishHuge(channel, l[1], l[2])
    \/ UdpmReadLcmMsg

InitUdpm == Init /\ proto = "udpm"
SpecUdpm == InitUdpm /\ [][NextUdpm]_vars

\* ---------------------------------------------------- the outbound path
\* The calls that write to the socket, followed through the two mutexes and
\* the socket's writes on a connection that stays live: publish, and for tcpq
\* subscribe and the removal hook of unsubscribe.  What a call does besides
\* (the worker thread, the sentinel, the joins) is in Spec.  A tcpq frame goes
\* out through sendall, which loops over send(); send() takes as many bytes
\* as the socket's buffer has room for, and another thread may run in between.
\* A udpm datagram goes out whole, in one sendto.
Rooms == {4, 16}                 \* bytes the socket's buffer has room for
OutDataLengths == {1, 64000}     \* len(data) of the udpm publishes

Calling(t, pc) == call[t].pc = pc
Piece(t, bytes) == [by |-> t, n |-> call[t].n, bytes |-> bytes]

RECURSIVE FragmentPlan(_, _, _, _)
\* the loop of _publish_large_payload, lines 325-350, by lengths: per
\* fragment, the numbers that go into its header
FragmentPlan(channel_length, data_length, fragment_idx, fragment_offset) ==
    LET count == FragmentCount(channel_length + data_length)
        fragment_length ==
            IF fragment_idx = 0
            THEN FRAGMENTATION_THRESHOLD - channel_length
            ELSE Min(FRAGMENTATION_THRESHOLD, data_length - fragment_offset)
    IN  IF fragment_idx >= count THEN <<>>
        ELSE <<[magic |-> MAGIC_LONG, data_length |-> data_length,
                fragment_offset |-> fragment_offset,
                fragment_idx |-> fragment_idx, fragment_count |-> count]>>
             \o FragmentPlan(channel_length, data_length, fragment_idx + 1,
                             fragment_offset + fragment_length)

\* publish, lines 165-171: one short datagram or the fragments
PublishPlan(channel, data_length) ==
    IF Len(channel) + 1 + data_length < FRAGMENTATION_THRESHOLD
    THEN <<[magic |-> MAGIC_SHORT, data_length |-> data_length,
            fragment_offset |-> 0, fragment_idx |-> 0, fragment_count |-> 1]>>
    ELSE FragmentPlan(Len(channel) + 1, data_length, 0, 0)

\* what a datagram begins with, lines 308-311 and 339-345; the stream keeps
\* this much of each datagram
DatagramHead(seq, item) ==
    IF item.magic = MAGIC_SHORT
    THEN MAGIC_SHORT \o ToBytes(seq, 4)
    ELSE MAGIC_LONG \o ToBytes(seq, 4) \o ToBytes(item.data_length, 4)
             \o ToBytes(item.fragment_offset, 4)
             \o ToBytes(item.fragment_idx, 2)
             \o ToBytes(item.fragment_count, 2)

OutBegin(t, c) ==
    /\ Calling(t, "idle")
    /\ calls < MaxOutCalls
    /\ is_connected
    /\ calls' = calls + 1
    /\ call' = [call EXCEPT ![t] = [c EXCEPT !.n = calls + 1]]

\* tcpq publish, lines 163-166, up to "with self._publish_mutex"
OutTcpqPublish(t, channel, data) ==
    /\ proto = "tcpq"
    /\ OutBegin(t, [NoCall EXCEPT !.op = "publish", !.pc = "lock",
                                  !.left = PublishFrame(channel, data)])
    /\ UNCHANGED <<frag, conn, subs, stack, thr, ret, done, handles, hist, reg, udp,
                   ctor, publish_mutex, subscriptions_mutex, stream>>

\* udpm publish, lines 161-166, up to "with self._publish_mutex"
OutUdpmPublish(t, channel, data_length) ==
    /\ proto = "udpm"
    /\ OutBegin(t, [NoCall EXCEPT !.op = "publish", !.pc = "lock",
                                  !.left = PublishPlan(channel, data_length)])
    /\ UNCHANGED <<frag, conn, subs, stack, thr, ret, done, handles, hist, reg, udp,
                   ctor, publish_mutex, subscriptions_mutex, stream>>

\* tcpq subscribe, lines 114-119, up to "with self._subscriptions_mutex"
OutSubscribe(t, channel) ==
    /\ proto = "tcpq"
    /\ nsubs < MaxSubs
    /\ OutBegin(t, [NoCall EXCEPT !.op = "subscribe", !.pc = "lock_subs",
                                  !.s = nsubs + 1,
                                  !.left = SubscribeFrame(channel)])
    /\ nsubs' = nsubs + 1
    /\ pattern' = [pattern EXCEPT ![nsubs + 1] = channel]
    /\ UNCHANGED <<frag, conn, inactive, queue, stack, thr, ret, done, handles, hist,
                   reg, udp, ctor, publish_mutex, subscriptions_mutex, stream>>

\* unsubscribe of an active Subscription, lines 65-69, and the hook up to
\* "with self._subscriptions_mutex" (line 214)
OutUnsubscribe(t, s) ==
    /\ proto = "tcpq"
    /\ s \in handles
    /\ ~inactive[s]
    /\ OutBegin(t, [NoCall EXCEPT !.op = "unsubscribe", !.pc = "lock_subs",
                                  !.s = s,
                                  !.left = UnsubscribeFrame(pattern[s])])
    /\ inactive' = [inactive EXCEPT ![s] = TRUE]
    /\ UNCHANGED <<frag, conn, nsubs, pattern, queue, stack, thr, ret, done, handles,
                   hist, reg, udp, ctor, publish_mutex, subscriptions_mutex,
                   stream>>

\* a lock that lets a second thread in
OutLockPublishAnyway(t) ==
    /\ Calling(t, "lock")
    /\ publish_mutex' = t
    /\ call' = [call EXCEPT ![t].pc = "send"]
    /\ UNCHANGED <<frag, conn, subs, stack, thr, ret, done, handles, hist, reg, udp,
                   ctor, subscriptions_mutex, stream, calls>>

\* "with self._publish_mutex", line 169 (udpm 164): blocks while it is held
OutLockPublish(t) ==
    /\ Calling(t, "lock")
    /\ publish_mutex = Free
    /\ publish_mutex' = t
    /\ call' = [call EXCEPT ![t].pc = "send"]
    /\ UNCHANGED <<frag, conn, subs, stack, thr, ret, done, handles, hist, reg, udp,
                   ctor, subscriptions_mutex, stream, calls>>

\* "with self._subscriptions_mutex", lines 121 and 214
OutLockSubscriptions(t) ==
    /\ Calling(t, "lock_subs")
    /\ subscriptions_mutex = Free
    /\ subscriptions_mutex' = t
    /\ call' = [call EXCEPT ![t].pc = "set"]
    /\ UNCHANGED <<frag, conn, subs, stack, thr, ret, done, handles, hist, reg, udp,
                   ctor, publish_mutex, stream, calls>>

\* lines 122 and 215: the live-set changed, and the with block left, which
\* frees the mutex
OutLiveSet(t) ==
    /\ Calling(t, "set")
    /\ subscriptions' = IF call[t].op = "subscribe"
                        THEN subscriptions \cup {call[t].s}
                        ELSE subscriptions \ {call[t].s}
    /\ subscriptions_mutex' = Free
    /\ call' = [call EXCEPT ![t].pc = "send"]
    /\ UNCHANGED <<frag, proto, disconnected, sock, peer, inb, wire, sequence_number,
                   fragment_buffers, subs, stack, thr, ret, done, handles,
                   hist, reg, udp, ctor, publish_mutex, stream, calls>>

\* sendall, lines 126, 170 and 220: one send() of its loop; when nothing is
\* left subscribe returns the Subscription and the hook returns, while publish
\* has its mutex to free
OutSendall(t, room) ==
    /\ proto = "tcpq"
    /\ Calling(t, "send")
    /\ LET k == Min(room, Len(call[t].left))
           over == k = Len(call[t].left)
       IN  /\ stream' = Append(stream, Piece(t, Take(call[t].left, k)))
           /\ call' = [call EXCEPT ![t] =
                          IF ~over THEN [@ EXCEPT !.left = Drop(@, k)]
                          ELSE IF @.op = "publish"
                          THEN [@ EXCEPT !.left = <<>>, !.pc = "unlock"]
                          ELSE NoCall]
           /\ handles' = IF over /\ call[t].op = "subscribe"
                         THEN handles \cup {call[t].s} ELSE handles
    /\ UNCHANGED <<frag, conn, subs, stack, thr, ret, done, hist, reg, udp, ctor,
                   publish_mutex, subscriptions_mutex, calls>>

\* sendto, lines 308 and 339: the next datagram of the publish, with the
\* sequence number as it is read now
OutSendto(t) ==
    /\ proto = "udpm"
    /\ Calling(t, "send")
    /\ stream' = Append(stream,
                     Piece(t, DatagramHead(sequence_number, Head(call[t].left))))
    /\ call' = [call EXCEPT ![t] =
                   IF Len(@.left) > 1 THEN [@ EXCEPT !.left = Tail(@)]
                   ELSE [@ EXCEPT !.left = <<>>, !.pc = "inc"]]
    /\ UNCHANGED <<frag, conn, subs, stack, thr, ret, done, handles, hist, reg, udp,
                   ctor, publish_mutex, subscriptions_mutex, calls>>

\* line 173, self._sequence_number += 1: the read
OutSeqRead(t) ==
    /\ Calling(t, "inc")
    /\ call' = [call EXCEPT ![t].read = sequence_number, ![t].pc = "inc2"]
    /\ UNCHANGED <<frag, conn, subs, stack, thr, ret, done, handles, hist, reg, udp,
                   ctor, publish_mutex, subscriptions_mutex, stream, calls>>

\* line 173, self._sequence_number += 1: the write
OutSeqWrite(t) ==
    /\ Calling(t, "inc2")
    /\ sequence_number' = call[t].read + 1
    /\ call' = [call EXCEPT ![t].pc = "unlock"]
    /\ UNCHANGED <<frag, proto, disconnected, sock, peer, inb, wire, subscriptions,
                   fragment_buffers, subs, stack, thr, ret, done, handles,
                   hist, reg, udp, ctor, publish_mutex, subscriptions_mutex,
                   stream, calls>>

\* the with block of publish left: the mutex freed, publish returns
OutUnlockPublish(t) ==
    /\ Calling(t, "unlock")
    /\ publish_mutex' = Free
    /\ call' = [call EXCEPT ![t] = NoCall]
    /\ UNCHANGED <<frag, conn, subs, stack, thr, ret, done, handles, hist, reg, udp,
                   ctor, subscriptions_mutex, stream, calls>>

NextOut ==
    \/ \E t \in Users, channel \in Channels, data \in Datas :
           OutTcpqPublish(t, channel, data)
    \/ \E t \in Users, channel \in Channels, n \in OutDataLengths :
           OutUdpmPublish(t, channel, n)
    \/ \E t \in Users, channel \in Patterns : OutSubscribe(t, channel)
    \/ \E t \in Users, s \in Subs : OutUnsubscribe(t, s)
    \/ \E t \in Users : OutLockPublish(t)
    \/ \E t \in Users : OutLockSubscriptions(t)
    \/ \E t \in Users : OutLiveSet(t)
    \/ \E t \in Users, room \in Rooms : OutSendall(t, room)
    \/ \E t \in Users : OutSendto(t)
    \/ \E t \in Users : OutSeqRead(t)
    \/ \E t \in Users : OutSeqWrite(t)
    \/ \E t \in Users : OutUnlockPublish(t)

SpecOut == Init /\ [][NextOut]_vars

\* ------------------------------------- the registry's tcpq connection
\* Lcm registers the LcmTcpqProvider of plcm/tcpq_provider.py, whose
\* connection has no worker threads and no queues: receive() calls the
\* callback itself, on the receiver thread, inside the fan-out.  A callback
\* is user code: it returns, or it calls subscribe, unsubscribe or disconnect
\* on the connection first.  The relay sends a message when a subscription it
\* knows of matches.  Line numbers here are those of plcm/tcpq_provider.py.
oldFixed == <<frag, proto, sequence_number, fragment_buffers, queue, enqueued,
              unsubReturned, disconnectReturned, reg, udp, ctor,
              publish_mutex, call, stream, calls>>
OldThreads == Users \cup {Receiver}

\* the top frame returns val to the frame below, or to the user
OldPop(t, val) ==
    /\ stack' = [stack EXCEPT ![t] = Below(t)]
    /\ ret' = IF t \in Users /\ Len(stack[t]) = 1
              THEN [ret EXCEPT ![t] = val] ELSE ret

OldBegin(t, op, f) ==
    /\ Idle(t)
    /\ May(op)
    /\ done' = [done EXCEPT ![op] = @ + 1]
    /\ stack' = [stack EXCEPT ![t] = <<f>>]
    /\ ret' = [ret EXCEPT ![t] = "pending"]
    /\ UNCHANGED <<oldFixed, disconnected, sock, peer, inb, wire,
                   subscriptions, nsubs, pattern, inactive, thr, handles,
                   delivered, subscriptions_mutex>>

OldCallSubscribe(t, channel) ==
    /\ nsubs + Cardinality({u \in OldThreads : At(u, "osub1")}) < MaxSubs
    /\ OldBegin(t, "subscribe", Frame("osub1", 0, channel, <<>>))

OldCallUnsubscribe(t, s) ==
    /\ s \in handles
    /\ OldBegin(t, "unsubscribe", Frame("ouns1", s, <<>>, <<>>))

OldCallDisconnect(t) ==
    OldBegin(t, "disconnect", Frame("odis1", 0, <<>>, <<>>))

\* the relay passes on a message published by some client
OldRelaySends(channel, data) ==
    /\ proto = "tcpq"
    /\ peer = "up"
    /\ RelayDelivers(wire, channel)
    /\ May("publish")
    /\ done' = [done EXCEPT !["publish"] = @ + 1]
    /\ inb' = inb \o PublishFrame(channel, data)
    /\ UNCHANGED <<oldFixed, disconnected, sock, peer, wire, subscriptions,
                   nsubs, pattern, inactive, stack, thr, ret, handles,
                   delivered, subscriptions_mutex>>

\* subscribe, lines 142-147
OldSubscribeCheck(t) ==
    /\ At(t, "osub1")
    /\ IF ~is_connected
       THEN OldPop(t, "absent") /\ UNCHANGED <<nsubs, pattern>>
       ELSE /\ nsubs' = nsubs + 1
            /\ pattern' = [pattern EXCEPT ![nsubs + 1] = Top(t).channel]
            /\ stack' = SetTop(t, [Top(t) EXCEPT !.pc = "osub2",
                                                 !.s = nsubs + 1])
            /\ UNCHANGED ret
    /\ UNCHANGED <<oldFixed, disconnected, sock, peer, inb, wire,
                   subscriptions, inactive, thr, done, handles, delivered,
                   subscriptions_mutex>>

\* "with self._subscriptions_mutex", lines 114, 121, 149 and 180: blocks
\* while the lock is held, whoever holds it (the Lock is not reentrant)
OldLock(t) ==
    /\ \E pc \in {"osub2", "ohook1", "odis4", "or2"} : At(t, pc)
    /\ subscriptions_mutex = Free
    /\ subscriptions_mutex' = t
    /\ stack' = SetTop(t, [Top(t) EXCEPT
                              !.pc = CASE @ = "osub2" -> "osub3"
                                       [] @ = "ohook1" -> "ohook2"
                                       [] @ = "odis4" -> "odis5"
                                       [] @ = "or2" -> "or3",
                              !.todo = IF Top(t).pc = "or2"
                                       THEN subscriptions ELSE @])
    /\ UNCHANGED <<oldFixed, disconnected, sock, peer, inb, wire,
                   subscriptions, nsubs, pattern, inactive, thr, ret, done,
                   handles, delivered>>

\* subscribe, line 150, and the end of the with block
OldSubscribeAdd(t) ==
    /\ At(t, "osub3")
    /\ subscriptions' = subscriptions \cup {Top(t).s}
    /\ subscriptions_mutex' = Free
    /\ stack' = Goto(t, "osub4")
    /\ UNCHANGED <<oldFixed, disconnected, sock, peer, inb, wire, nsubs,
                   pattern, inactive, thr, ret, done, handles, delivered>>

\* subscribe, lines 152-163: the SUBSCRIBE frame; a failed write goes on to
\* disconnect()
OldSubscribeWrite(t) ==
    /\ At(t, "osub4")
    /\ \/ /\ WriteOk
          /\ Written(SubscribeFrame(Top(t).channel))
          /\ OldPop(t, "sub")
          /\ handles' = handles \cup {Top(t).s}
       \/ /\ WriteFails
          /\ stack' = Call(t, "osub5", Frame("odis1", 0, <<>>, <<>>))
          /\ UNCHANGED <<wire, peer, inb, ret, handles>>
    /\ UNCHANGED <<oldFixed, disconnected, sock, subscriptions, nsubs,
                   pattern, inactive, thr, done, delivered,
                   subscriptions_mutex>>

\* subscribe, line 161: return None
OldSubscribeNone(t) ==
    /\ At(t, "osub5")
    /\ OldPop(t, "absent")
    /\ UNCHANGED <<oldFixed, disconnected, sock, peer, inb, wire,
                   subscriptions, nsubs, pattern, inactive, thr, done,
                   handles, delivered, subscriptions_mutex>>

\* unsubscribe, lines 59-60
OldUnsubscribeCheck(t) ==
    /\ At(t, "ouns1")
    /\ IF inactive[Top(t).s]
       THEN OldPop(t, "ok")
       ELSE stack' = Goto(t, "ouns2") /\ UNCHANGED ret
    /\ UNCHANGED <<oldFixed, disconnected, sock, peer, inb, wire,
                   subscriptions, nsubs, pattern, inactive, thr, done,
                   handles, delivered, subscriptions_mutex>>

\* unsubscribe, lines 62-63: the Event set and the hook called
OldUnsubscribeSet(t) ==
    /\ At(t, "ouns2")
    /\ inactive' = [inactive EXCEPT ![Top(t).s] = TRUE]
    /\ stack' = Goto(t, "ohook1")
    /\ UNCHANGED <<oldFixed, disconnected, sock, peer, inb, wire,
                   subscriptions, nsubs, pattern, thr, ret, done, handles,
                   delivered, subscriptions_mutex>>

\* _unsubscribe_callback, line 122, and the end of the with block
OldHookDiscard(t) ==
    /\ At(t, "ohook2")
    /\ subscriptions' = subscriptions \ {Top(t).s}
    /\ subscriptions_mutex' = Free
    /\ stack' = Goto(t, "ohook3")
    /\ UNCHANGED <<oldFixed, disconnected, sock, peer, inb, wire, nsubs,
                   pattern, inactive, thr, ret, done, handles, delivered>>

\* _unsubscribe_callback, lines 124-134: the UNSUBSCRIBE frame; a failed
\* write goes on to disconnect()
OldHookWrite(t) ==
    /\ At(t, "ohook3")
    /\ \/ /\ WriteOk
          /\ Written(UnsubscribeFrame(pattern[Top(t).s]))
          /\ OldPop(t, "ok")
       \/ /\ WriteFails
          /\ stack' = Call(t, "ohook4", Frame("odis1", 0, <<>>, <<>>))
          /\ UNCHANGED <<wire, peer, inb, ret>>
    /\ UNCHANGED <<oldFixed, disconnected, sock, subscriptions, nsubs,
                   pattern, inactive, thr, done, handles, delivered,
                   subscriptions_mutex>>

\* _unsubscribe_callback, line 134, or a callback's last statement: return
OldReturn(t) ==
    /\ At(t, "ohook4") \/ At(t, "ocb2")
    /\ OldPop(t, "ok")
    /\ UNCHANGED <<oldFixed, disconnected, sock, peer, inb, wire,
                   subscriptions, nsubs, pattern, inactive, thr, done,
                   handles, delivered, subscriptions_mutex>>

\* disconnect, lines 171-172
OldDisconnectCheck(t) ==
    /\ At(t, "odis1")
    /\ IF ~is_connected
       THEN OldPop(t, "ok")
       ELSE stack' = Goto(t, "odis2") /\ UNCHANGED ret
    /\ UNCHANGED <<oldFixed, disconnected, sock, peer, inb, wire,
                   subscriptions, nsubs, pattern, inactive, thr, done,
                   handles, delivered, subscriptions_mutex>>

\* disconnect, line 174
OldDisconnectSet(t) ==
    /\ At(t, "odis2")
    /\ disconnected' = TRUE
    /\ stack' = Goto(t, "odis3")
    /\ UNCHANGED <<oldFixed, sock, peer, inb, wire, subscriptions, nsubs,
                   pattern, inactive, thr, ret, done, handles, delivered,
                   subscriptions_mutex>>

\* disconnect, lines 176-178: shutdown and close under suppress(OSError);
\* shutdown raises on a closed socket and on a reset connection, and close is
\* then skipped
OldDisconnectShutdown(t) ==
    /\ At(t, "odis3")
    /\ sock' = IF sock = "closed" \/ peer = "rst" THEN sock ELSE "closed"
    /\ stack' = Goto(t, "odis4")
    /\ UNCHANGED <<oldFixed, disconnected, peer, inb, wire, subscriptions,
                   nsubs, pattern, inactive, thr, ret, done, handles,
                   delivered, subscriptions_mutex>>

\* disconnect, lines 181-182, and the end of the with block
OldDisconnectSnapshot(t) ==
    /\ At(t, "odis5")
    /\ stack' = SetTop(t, [Top(t) EXCEPT !.pc = "odis6",
                                         !.todo = subscriptions])
    /\ subscriptions' = {}
    /\ subscriptions_mutex' = Free
    /\ UNCHANGED <<oldFixed, disconnected, sock, peer, inb, wire, nsubs,
                   pattern, inactive, thr, ret, done, handles, delivered>>

\* disconnect, lines 184-185: unsubscribe() on the next Subscription of the
\* copy, or the loop is over
OldDisconnectUnsubscribeEach(t) ==
    /\ At(t, "odis6")
    /\ IF Top(t).todo = {}
       THEN stack' = Goto(t, "odis7")
       ELSE \E s \in Top(t).todo :
                stack' = [stack EXCEPT ![t] =
                    Append([stack[t] EXCEPT ![Len(stack[t])].todo = @ \ {s}],
                           Frame("ouns1", s, <<>>, <<>>))]
    /\ UNCHANGED <<oldFixed, disconnected, sock, peer, inb, wire,
                   subscriptions, nsubs, pattern, inactive, thr, ret, done,
                   handles, delivered, subscriptions_mutex>>

\* disconnect, line 187: join the receiver thread (RuntimeError on itself)
OldDisconnectJoin(t) ==
    /\ At(t, "odis7")
    /\ IF t = Receiver
       THEN Raise(t) /\ UNCHANGED ret
       ELSE Ended(Receiver) /\ OldPop(t, "ok") /\ UNCHANGED thr
    /\ UNCHANGED <<oldFixed, disconnected, sock, peer, inb, wire,
                   subscriptions, nsubs, pattern, inactive, done, handles,
                   delivered, subscriptions_mutex>>

\* _handle_subscriptions_thread, lines 108-112 and 118: "while True", and
\* _read_lcm_msg blocks until it has a message; recv raises on a closed
\* socket and on a reset connection, which breaks the loop and goes on to
\* disconnect()
OldReceiverRead(t) ==
    /\ At(t, "r1")
    /\ proto = "tcpq"
    /\ IF sock = "closed" \/ peer = "rst"
       THEN /\ stack' = Call(t, "or9", Frame("odis1", 0, <<>>, <<>>))
            /\ inb' = inb
       ELSE \E k \in 1 .. 4 :
                LET r == ReadLcmMsg(inb, k, peer = "fin")
                IN  /\ r.ok
                    /\ inb' = r.rest
                    /\ stack' = SetTop(t, [Top(t) EXCEPT !.pc = "or2",
                                              !.channel = r.msg.channel,
                                              !.data = r.msg.data])
    /\ UNCHANGED <<oldFixed, disconnected, sock, peer, wire, subscriptions,
                   nsubs, pattern, inactive, thr, ret, done, handles,
                   delivered, subscriptions_mutex>>

\* lines 115-116 and 43-47, inside the with block: receive() of the next
\* Subscription of the live-set, which calls the callback when the
\* Subscription is active and its pattern matches; after the last one the
\* with block ends
OldReceiverFanOut(t) ==
    /\ At(t, "or3")
    /\ IF Top(t).todo = {}
       THEN /\ subscriptions_mutex' = Free
            /\ stack' = SetTop(t, Frame("r1", 0, <<>>, <<>>))
            /\ UNCHANGED delivered
       ELSE \E s \in Top(t).todo :
                LET rest == [stack[t] EXCEPT ![Len(stack[t])].todo = @ \ {s}]
                    msg == [channel |-> Top(t).channel, data |-> Top(t).data,
                            n |-> Len(delivered[s]) + 1]
                IN  /\ UNCHANGED subscriptions_mutex
                    /\ IF ~inactive[s] /\ Matches(pattern[s], Top(t).channel)
                       THEN /\ stack' = [stack EXCEPT ![t] =
                                   Append(rest, Frame("ocb", s, <<>>, <<>>))]
                            /\ delivered' =
                                   [delivered EXCEPT ![s] = Append(@, msg)]
                       ELSE /\ stack' = [stack EXCEPT ![t] = rest]
                            /\ UNCHANGED delivered
    /\ UNCHANGED <<oldFixed, disconnected, sock, peer, inb, wire,
                   subscriptions, nsubs, pattern, inactive, thr, ret, done,
                   handles>>

\* the callback of Subscription s, user code: it returns
OldCallbackReturns(t) ==
    /\ At(t, "ocb")
    /\ OldPop(t, "ok")
    /\ UNCHANGED <<oldFixed, disconnected, sock, peer, inb, wire,
                   subscriptions, nsubs, pattern, inactive, thr, done,
                   handles, delivered, subscriptions_mutex>>

\* the callback of Subscription s, user code: it calls unsubscribe() on its
\* Subscription, subscribe() or disconnect() on the connection, and returns
\* after that
OldCallbackCalls(t, op, channel) ==
    /\ At(t, "ocb")
    /\ May(op)
    /\ op = "subscribe" =>
           nsubs + Cardinality({u \in OldThreads : At(u, "osub1")}) < MaxSubs
    /\ done' = [done EXCEPT ![op] = @ + 1]
    /\ stack' = Call(t, "ocb2",
                     CASE op = "unsubscribe" ->
                              Frame("ouns1", Top(t).s, <<>>, <<>>)
                       [] op = "subscribe" -> Frame("osub1", 0, channel, <<>>)
                       [] op = "disconnect" -> Frame("odis1", 0, <<>>, <<>>))
    /\ UNCHANGED <<oldFixed, disconnected, sock, peer, inb, wire,
                   subscriptions, nsubs, pattern, inactive, thr, ret, handles,
                   delivered, subscriptions_mutex>>

\* the receiver thread ends when the disconnect() of line 118 returns
OldReceiverExit(t) ==
    /\ At(t, "or9")
    /\ stack' = [stack EXCEPT ![t] = <<>>]
    /\ thr' = [thr EXCEPT ![t] = "exited"]
    /\ UNCHANGED <<oldFixed, disconnected, sock, peer, inb, wire,
                   subscriptions, nsubs, pattern, inactive, ret, done,
                   handles, delivered, subscriptions_mutex>>

NextOld ==
    \/ \E t \in Users, channel \in Patterns : OldCallSubscribe(t, channel)
    \/ \E t \in Users, s \in Subs : OldCallUnsubscribe(t, s)
    \/ \E t \in Users : OldCallDisconnect(t)
    \/ \E channel \in Channels, data \in Datas : OldRelaySends(channel, data)
    \/ \E t \in OldThreads : OldSubscribeCheck(t)
    \/ \E t \in OldThreads : OldLock(t)
    \/ \E t \in OldThreads : OldSubscribeAdd(t)
    \/ \E t \in OldThreads : OldSubscribeWrite(t)
    \/ \E t \in OldThreads : OldSubscribeNone(t)
    \/ \E t \in OldThreads : OldUnsubscribeCheck(t)
    \/ \E t \in OldThreads : OldUnsubscribeSet(t)
    \/ \E t \in OldThreads : OldHookDiscard(t)
    \/ \E t \in OldThreads : OldHookWrite(t)
    \/ \E t \in OldThreads : OldReturn(t)
    \/ \E t \in OldThreads : OldDisconnectCheck(t)
    \/ \E t \in OldThreads : OldDisconnectSet(t)
    \/ \E t \in OldThreads : OldDisconnectShutdown(t)
    \/ \E t \in OldThreads : OldDisconnectSnapshot(t)
    \/ \E t \in OldThreads : OldDisconnectUnsubscribeEach(t)
    \/ \E t \in OldThreads : OldDisconnectJoin(t)
    \/ \E t \in OldThreads : OldReceiverRead(t)
    \/ \E t \in OldThreads : OldReceiverFanOut(t)
    \/ \E t \in OldThreads : OldCallbackReturns(t)
    \/ \E t \in OldThreads, op \in {"subscribe", "unsubscribe", "disconnect"},
          channel \in Patterns : OldCallbackCalls(t, op, channel)
    \/ \E t \in OldThreads : OldReceiverExit(t)

InitOld == Init /\ proto = "tcpq"
SpecOld == InitOld /\ [][NextOld]_vars

\* ------------------------------------------------------- the udpm reassembly
\* Two peers send fragmented messages to the group, and the reader callback
\* takes their datagrams in whatever order the network hands them over: late,
\* twice, or never.  Each peer's message with sequence number 0 has three
\* fragments and the one with sequence number 1 has two; every fragment carries
\* one byte of data that tells its peer, message and place.
Sources == {"A", "B"}
PeerSeqs == {0, 1}
FragmentsIn(seq) == IF seq = 0 THEN 3 ELSE 2
PeerChannel(source) == IF source = "A" THEN ChA ELSE ChAB
PeerByte(source, seq, idx) == (IF source = "A" THEN 100 ELSE 200) + 10 * seq + idx

RECURSIVE PeerData(_, _, _)
\* the first n bytes of the message
PeerData(source, seq, n) ==
    IF n = 0 THEN <<>>
    ELSE Append(PeerData(source, seq, n - 1), PeerByte(source, seq, n - 1))

\* What a peer sends, in order: the fragments of its message 0, then those of
\* its message 1, as pairs of sequence number and fragment number.
PeerStream == <<<<0, 0>>, <<0, 1>>, <<0, 2>>, <<1, 0>>, <<1, 1>>>>

\* The datagram that carries fragment idx of the peer's message, in the layout
\* of _publish_large_payload (lines 339-346): magic, sequence number, data
\* length, fragment offset, fragment number, fragment count, then the channel
\* and a zero byte in fragment 0 only, then the fragment's data.
PeerFragment(source, seq, idx) ==
    MAGIC_LONG \o ToBytes(seq, 4) \o ToBytes(FragmentsIn(seq), 4)
        \o ToBytes(idx, 4) \o ToBytes(idx, 2) \o ToBytes(FragmentsIn(seq), 2)
        \o (IF idx = 0 THEN Append(PeerChannel(source), 0) ELSE <<>>)
        \o <<PeerByte(source, seq, idx)>>

\* the fragment is not the one the buffer of its key waits for, or its key has
\* no buffer
NotExpected(source, seq, idx) ==
    \/ <<seq, source>> \notin DOMAIN fragment_buffers
    \/ fragment_buffers[<<seq, source>>].current_fragment_number # idx

\* LcmUdpmConnection._read_lcm_msg, lines 293-305, on a datagram recvmsg
\* returns with its sender's address; the message, if one comes of it, goes to
\* _process_lcm_msg
FragReadLcmMsg(source, seq, idx) ==
    /\ proto = "udpm"
    /\ is_connected
    /\ feeds < MaxFeeds
    /\ feeds' = feeds + 1
    /\ \E r \in {ReadDatagram(PeerFragment(source, seq, idx), source,
                               fragment_buffers)} :
           /\ fragment_buffers' = r.buffers
           /\ fed' = [source |-> source, seq |-> seq, idx |-> idx,
                      has |-> r.has]
           /\ emitted' = IF r.has
                         THEN Append(emitted,
                                     [source |-> source, seq |-> seq,
                                      channel |-> r.msg.channel,
                                      data |-> r.msg.data])
                         ELSE emitted
    /\ upto' = [upto EXCEPT ![source] =
                    IF /\ @ >= 0 /\ @ < Len(PeerStream)
                       /\ PeerStream[@ + 1] = <<seq, idx>>
                    THEN @ + 1 ELSE -1]
    /\ late' = IF idx = 0 THEN late \ {<<seq, source>>}
               ELSE IF NotExpected(source, seq, idx)
               THEN late \cup {<<seq, source>>}
               ELSE late
    /\ UNCHANGED <<outb, reg, ctor, proto, disconnected, sock, peer, inb, wire,
                   subscriptions, sequence_number, subs, stack, thr, ret, done,
                   handles, hist, udp>>

NextFrag ==
    \E source \in Sources, seq \in PeerSeqs :
        \E idx \in 0 .. FragmentsIn(seq) - 1 : FragReadLcmMsg(source, seq, idx)

InitFrag == Init /\ proto = "udpm"
SpecFrag == InitFrag /\ [][NextFrag]_vars

\* ------------------------------------------------------------ what is checked
\* The messages the publishes so far have put on the wire, one per index of
\* the wire that carries a PUBLISH frame (tcpq) or a small datagram (udpm).
IsPublishOf(f, seq, m) ==
    IF proto = "tcpq"
    THEN f = PublishFrame(m.channel, m.data)
    ELSE f = SmallDatagram(seq, Append(m.channel, 0) \o m.data)

Messages == [channel : Channels, data : Datas]

PublishedAt(m) ==
    {i \in 1 .. Len(wire) : \E seq \in 0 .. Len(wire) : IsPublishOf(wire[i], seq, m)}

Message(item) == [channel |-> item.channel, data |-> item.data]

\* the callback invocations of Subscription s that carried message m
DeliveriesOf(s, m) ==
    {i \in 1 .. Len(delivered[s]) : Message(delivered[s][i]) = m}

\* C1 (safety part): every callback invocation of a Subscription carries the
\* channel and the data bytes of a publish whose channel its pattern matches,
\* and a message is handed to the callback at most once per publish of it:
\* never twice, never with other bytes.
C1_CallbackGetsPublishedBytes ==
    \A s \in 1 .. nsubs :
        /\ \A i \in 1 .. Len(delivered[s]) :
               /\ Message(delivered[s][i]) \in Messages
               /\ PublishedAt(Message(delivered[s][i])) # {}
               /\ Matches(pattern[s], delivered[s][i].channel)
        /\ \A m \in Messages :
               Cardinality(DeliveriesOf(s, m)) <= Cardinality(PublishedAt(m))

\* C2: for every Subscription the callback invocations are in the order in
\* which receive() enqueued the messages: the n-th message enqueued is handed
\* to the callback before any message enqueued after it, and what the callback
\* gets is what was enqueued.
C2_CallbacksInEnqueueOrder ==
    \A s \in Subs :
        /\ \A i \in 1 .. Len(delivered[s]) :
               /\ delivered[s][i].n \in 1 .. Len(enqueued[s])
               /\ enqueued[s][delivered[s][i].n] = delivered[s][i]
        /\ \A i, j \in 1 .. Len(delivered[s]) :
               i < j => delivered[s][i].n < delivered[s][j].n

\* a Subscription whose callback has run for two messages
C2_TwoCallbacks == \E s \in Subs : Len(delivered[s]) >= 2

\* C3: once an unsubscribe() of a Subscription has returned, the callback of
\* that Subscription is not invoked again.
C3_NoCallbackAfterUnsubscribe ==
    [][\A s \in Subs : unsubReturned[s] => delivered'[s] = delivered[s]]_vars

\* thread t takes a step of the call it is in
Steps(t) == stack'[t] # stack[t]
\* the step ends the call thread t is in
Returns(t) == Len(stack'[t]) < Len(stack[t])

\* C4: on a torn-down Connection, tcpq or udpm, publish fails with the
\* not-connected error and subscribe returns absent, and the call writes no
\* frame or datagram, creates no Subscription and no worker and leaves the
\* live-set as it is.
C4_TornDownRejects ==
    [][\A t \in Users :
          (disconnected /\ (At(t, "pub1") \/ At(t, "sub1")) /\ Steps(t)) =>
              /\ stack'[t] = <<>>
              /\ ret'[t] = IF At(t, "pub1") THEN "NotConnected" ELSE "absent"
              /\ UNCHANGED <<wire, inb, sequence_number, subscriptions, subs,
                             thr, handles>>]_vars

\* publish and subscribe have both been refused on a torn-down Connection
C4_BothRefused ==
    /\ disconnected
    /\ \E t, u \in Users : ret[t] = "NotConnected" /\ ret[u] = "absent"

\* C5: the Connection goes from live to torn down only: once is_connected()
\* could return false, no step of any thread makes it true again.
C5_NeverLiveAgain == [][disconnected => disconnected']_vars

\* torn down, and a call made afterwards has found it so
C5_TornDownAndUsed ==
    /\ disconnected
    /\ disconnectReturned
    /\ \E t \in Users : ret[t] \in {"NotConnected", "absent"}

\* C6: after a disconnect() has returned, a further disconnect() returns
\* normally and changes nothing: no socket operation, no unsubscribe, no frame,
\* no change of the Connection's or any Subscription's state.
C6_DisconnectIdempotent ==
    [][\A t \in Threads :
          (disconnectReturned /\ At(t, "dis1") /\ Steps(t)) =>
              /\ Returns(t)
              /\ t \in Users /\ Len(stack[t]) = 1 => ret'[t] = "ok"
              /\ UNCHANGED <<conn, subs, thr, handles, enqueued, delivered,
                             unsubReturned>>]_vars

\* one user thread has called disconnect() twice, one call after the other
C6_SecondDisconnectReturned ==
    /\ done["disconnect"] = 2
    /\ \A t \in Users :
           /\ stack[t] = <<>>
           /\ ret[t] = IF t[2] = 1 THEN "ok" ELSE "none"

\* C7: after an unsubscribe() of a Subscription has returned, a further
\* unsubscribe() of it returns normally and changes nothing: the removal hook
\* is not invoked, no UNSUBSCRIBE frame is written, no sentinel is enqueued.
C7_UnsubscribeIdempotent ==
    [][\A t \in Threads :
          (At(t, "uns1") /\ unsubReturned[Top(t).s] /\ Steps(t)) =>
              /\ Returns(t)
              /\ t \in Users /\ Len(stack[t]) = 1 => ret'[t] = "ok"
              /\ UNCHANGED <<conn, subs, thr, handles, enqueued, delivered,
                             disconnectReturned>>]_vars

\* one user thread has called unsubscribe() twice on its Subscription, one call
\* after the other
C7_SecondUnsubscribeReturned ==
    /\ done["unsubscribe"] = 2
    /\ \A t \in Users :
           /\ stack[t] = <<>>
           /\ ret[t] = IF t[2] = 1 THEN "ok" ELSE "none"

\* C8: after a disconnect() has returned to the thread that called it, the
\* receiver thread has exited and so has the worker thread of every
\* Subscription the Connection has created.
C8_ThreadsGoneAfterDisconnect ==
    disconnectReturned =>
        /\ Ended(Receiver)
        /\ \A s \in 1 .. nsubs : Ended(WorkerOf(s))

\* the step is a call of Lcm.connect
Connects == ncalls' # ncalls /\ last'.op = "connect"

\* C9: Lcm.connect(url) raises ValueError when the URL has no scheme and
\* RuntimeError when no provider is registered for its scheme; no provider's
\* connect is called, the registry stays as it is, and the error reaches the
\* caller instead of None.
C9_StructuralErrorsSurface ==
    [][Connects =>
          /\ Scheme(last'.arg) = "" =>
                 /\ last'.result = "ValueError"
                 /\ last'.invoked = "none"
                 /\ providers' = providers
          /\ Scheme(last'.arg) # "" /\ Scheme(last'.arg) \notin DOMAIN providers =>
                 /\ last'.result = "RuntimeError"
                 /\ last'.invoked = "none"
                 /\ providers' = providers]_vars

\* a connect for a scheme nothing is registered for has raised RuntimeError
C9_UnknownSchemeRaised ==
    /\ last.op = "connect"
    /\ Scheme(last.arg) \notin DOMAIN providers \cup {""}
    /\ last.result = "RuntimeError"

\* C10: when a provider is registered for the scheme, Lcm.connect(url) returns
\* the Connection or, when the provider's attempt fails (the URL rejected, the
\* TCP connection not established, the handshake failed), None: it does not
\* raise.
C10_FailedAttemptIsAbsent ==
    (last.op = "connect" /\ Scheme(last.arg) \in DOMAIN providers) =>
        last.result \in {"connection", "absent"}

\* the step is a call of Lcm.register_provider
Registers == ncalls' # ncalls /\ last'.op = "register_provider"

\* C11: register_provider(name, provider, override_existing) raises ValueError
\* when the name is registered and override_existing is false, and the
\* registry stays as it is; with override_existing true, and for a name not
\* registered, it succeeds and the name maps to the new provider, the other
\* names to what they mapped to.
C11_RegisterProvider ==
    [][Registers =>
          IF last'.arg \in DOMAIN providers /\ ~last'.override_existing
          THEN /\ last'.result = "ValueError"
               /\ providers' = providers
          ELSE /\ last'.result = "ok"
               /\ DOMAIN providers' = DOMAIN providers \cup {last'.arg}
               /\ providers'[last'.arg] = last'.provider
               /\ \A n \in DOMAIN providers \ {last'.arg} :
                      providers'[n] = providers[n]]_vars

\* a registration has been refused, and one has replaced a provider by another
C11_RefusedAfterReplaced ==
    /\ last.op = "register_provider"
    /\ last.result = "ValueError"
    /\ providers["tcpq"] = "BogusProvider"

\* C12: a new registry has a provider for tcpq and one for udpm: the first
\* connect of a fresh registry with a udpm URL is dispatched to the udpm
\* provider and does not raise the RuntimeError of an unregistered scheme.
C12_FreshRegistryHasUdpm ==
    (ncalls = 1 /\ last.op = "connect" /\ Scheme(last.arg) = "udpm") =>
        /\ last.result # "RuntimeError"
        /\ last.invoked = "LcmUdpmProvider"

\* the pattern occurs in the channel at position 0
StartsWith(channel, p) ==
    /\ Len(p) <= Len(channel)
    /\ \A i \in 1..Len(p) : channel[i] = p[i]

\* the receiver thread hands a message to the Subscriptions of the live-set
FansOut == At(Receiver, "r3") /\ Steps(Receiver)

\* C13: receive(channel, data) puts exactly one LcmMessage(channel, data) on
\* the Subscription's queue if and only if the Subscription is active and its
\* pattern matches the channel from position 0 (a prefix, not the whole
\* channel); otherwise the queue is left alone, so no callback ever gets a
\* channel its pattern does not match.
C13_EnqueuesIffActiveAndPrefix ==
    /\ [](\A s \in Subs : \A i \in 1..Len(delivered[s]) :
              StartsWith(delivered[s][i].channel, pattern[s]))
    /\ [][FansOut =>
             \A s \in subscriptions :
                 IF ~inactive[s] /\ StartsWith(Top(Receiver).channel, pattern[s])
                 THEN /\ Len(queue'[s]) = Len(queue[s]) + 1
                      /\ SubSeq(queue'[s], 1, Len(queue[s])) = queue[s]
                      /\ Message(queue'[s][Len(queue'[s])]) =
                             [channel |-> Top(Receiver).channel,
                              data |-> Top(Receiver).data]
                 ELSE queue'[s] = queue[s]]_vars

\* a callback got a channel that is longer than its Subscription's pattern
C13_PrefixDelivered ==
    \E s \in Subs : \E i \in 1..Len(delivered[s]) :
        /\ pattern[s] = ChA
        /\ delivered[s][i].channel = ChAB

\* the publish of the udpm codec is one whose datagrams are written out
WrittenOut == trip.result = "ok" /\ trip.blocks < MAX_FRAGMENTS

\* the data of the codec's last publish
TripData ==
    Bytes(trip.blocks * FRAGMENTATION_THRESHOLD + trip.rest
              - Len(trip.channel) - 1)

\* C14: the datagrams of one udpm publish(channel, data), read in the order
\* sent from one source address, give exactly one LcmMessage, which is
\* (channel, data), and give it with the last datagram; this holds below the
\* threshold (one short datagram) and at or above it (fragments).
C14_UdpmRoundTrip ==
    WrittenOut =>
        IF inb = <<>>
        THEN /\ Len(out) = 1
             /\ out[1].channel = trip.channel
             /\ Unpack(out[1].data) = TripData
        ELSE out = <<>>

\* a publish of three fragments has been read to the end, after another
\* publish that went out
C14_ThreeFragmentsRead ==
    /\ WrittenOut
    /\ trip.sent = 3
    /\ trip.before = "ok"
    /\ sequence_number = 2
    /\ fragment_buffers = <<>>
    /\ inb = <<>>
    /\ Len(out) = 1

\* the step is a publish of the udpm codec
UdpmPublishes == trips' # trips

\* C15: udpm publish sends one short datagram, carrying channel, a zero byte
\* and data, if and only if len(channel) + 1 + len(data) is below 64,000; at
\* 64,000 and above it sends ceil(length / 64,000) long datagrams, with the
\* indices 0 .. count - 1 in this order and each carrying the count.
C15_ShortBelowThresholdElseCeilFragments ==
    [][(UdpmPublishes /\ WrittenOut') =>
          LET payload_length == trip'.blocks * FRAGMENTATION_THRESHOLD + trip'.rest
              count == (payload_length + FRAGMENTATION_THRESHOLD - 1)
                           \div FRAGMENTATION_THRESHOLD
          IN  IF payload_length < 64000
              THEN /\ Len(inb') = 1
                   /\ \A dgram \in {Unpack(inb'[1].data)} :
                          /\ Take(dgram, 4) = MAGIC_SHORT
                          /\ Drop(dgram, 8) =
                                 trip'.channel \o <<0>> \o TripData'
              ELSE /\ Len(inb') = count
                   /\ trip'.sent = count
                   /\ \A i \in 1 .. count :
                          \A dgram \in {Unpack(inb'[i].data)} :
                              /\ Take(dgram, 4) = MAGIC_LONG
                              /\ FromBytes(SubSeq(dgram, 17, 18)) = i - 1
                              /\ FromBytes(SubSeq(dgram, 19, 20)) = count]_vars

\* a payload of one byte over the threshold went out as two fragments
C15_OneByteOverThreshold ==
    /\ WrittenOut
    /\ trip.blocks = 1
    /\ trip.rest = 1
    /\ Len(inb) = 2

\* C16: a udpm publish whose fragment count would be over 65,535 ends with
\* ValueError, sends no datagram, bumps no sequence number and leaves the
\* connection live; the publish after it goes through as any other.
C16_TooManyFragmentsRefused ==
    [][UdpmPublishes =>
          LET whole == trip'.blocks + (IF trip'.rest > 0 THEN 1 ELSE 0)
          IN  IF whole > 65535
              THEN /\ trip'.result = "ValueError"
                   /\ trip'.sent = 0
                   /\ inb' = inb
                   /\ sequence_number' = sequence_number
                   /\ ~disconnected'
              ELSE /\ trip'.result = "ok"
                   /\ trip'.sent = whole
                   /\ sequence_number' = sequence_number + 1]_vars

\* a publish has been refused for its length and the next one has gone out
C16_PublishedAfterRefusal ==
    /\ trip.before = "ValueError"
    /\ trip.result = "ok"
    /\ is_connected
    /\ Len(inb) = trip.sent
    /\ trip.sent > 0

\* C17: when the bytes read in answer to the handshake differ in any byte
\* from the server magic followed by the protocol version, a short read
\* included, the construction ends with RuntimeError: no connection is made,
\* no receiver thread is started, and no PUBLISH, SUBSCRIBE or UNSUBSCRIBE
\* frame is written.
C17_BadHandshakeReplyMakesNothing ==
    LET expected == <<40, 118, 23, 250, 0, 0, 1, 0>>
        differs == \/ Len(made.reply) # 8
                   \/ \E i \in 1..8 : made.reply[i] # expected[i]
    IN  (made.read /\ differs) =>
            /\ made.pc = "done"
            /\ made.result = "RuntimeError"
            /\ ~made.receiver
            /\ made.frames = <<>>

\* in the second construction a reply has been read that is right but for
\* its last byte
C17_LastByteWrong ==
    /\ makes = 2
    /\ made.read
    /\ Len(made.reply) = 8
    /\ SubSeq(made.reply, 1, 7) = <<40, 118, 23, 250, 0, 0, 1>>
    /\ made.reply[8] # 0
    /\ made.result = "RuntimeError"

\* thread t is in a tcpq publish whose write of the PUBLISH frame fails or
\* has failed
PublishWriteFailed(t) ==
    /\ stack[t] # <<>>
    /\ \/ stack[t][1].pc = "pub3"
       \/ /\ stack[t][1].pc = "pub2"
          /\ proto = "tcpq"
          /\ (sock # "open" \/ peer = "rst")

\* C18: a tcpq publish on a connection that was live when it began, and whose
\* write of the PUBLISH frame fails, returns normally and raises nothing, and
\* when it returns the connection is torn down.  (The write under
\* _publish_mutex is one step, so the mutex is free whenever another step is
\* taken.)
C18_PublishBestEffort ==
    [][\A t \in Users :
          (PublishWriteFailed(t) /\ stack'[t] = <<>>) =>
              /\ ret'[t] = "ok"
              /\ thr'[t] = "alive"
              /\ disconnected']_vars

\* a publish has returned normally though no PUBLISH frame was ever written,
\* no user having asked for a teardown
C18_ReturnedWithoutWriting ==
    /\ proto = "tcpq"
    /\ done["publish"] = 1
    /\ done["disconnect"] = 0
    /\ done["unsubscribe"] = 0
    /\ \E t \in Users : ret[t] = "ok"
    /\ \A i \in 1 .. Len(wire) : FrameType(wire[i]) # PUBLISH
    /\ disconnected

\* C19: a udpm publish whose sendto fails with an I/O error does not let the
\* error out: no publish of a user thread ends with OSError.
C19_UdpmPublishKeepsErrorsIn ==
    \A t \in Users : ret[t] # "OSError"

\* no user thread and no receiver is inside a call
Quiet == \A t \in Users \cup {Receiver} : stack[t] = <<>>

\* C20: a tcpq subscribe whose SUBSCRIBE frame could not be written returns
\* absent with the connection torn down; afterwards, when the calls under way
\* have returned, the Subscription made for the call (it was never handed to
\* the user) is inactive, out of the live-set, and its worker has ended.
C20_FailedSubscribeLeavesNothing ==
    \A s \in 1 .. nsubs :
        (Quiet /\ s \notin handles) =>
            /\ \E t \in Users : ret[t] = "absent"
            /\ disconnected
            /\ inactive[s]
            /\ s \notin subscriptions
            /\ thr[WorkerOf(s)] \in {"exited", "raised"}


\* Subscription s is made in the step (its constructor runs)
Constructs(s) == nsubs' = s /\ nsubs = s - 1

\* thread t is at "self._inactive.set()" of the unsubscribe() of s
SetsInactive(t, s) == At(t, "uns2") /\ Top(t).s = s /\ Steps(t)

\* frame k of thread t is the loop of a teardown, and the frame above it the
\* unsubscribe() the loop has called
LoopCalls(t, k) ==
    /\ k < Len(stack[t])
    /\ stack[t][k].pc = "dis5"

\* C21: a Subscription is active when constructed, becomes inactive only in
\* an unsubscribe() of it (called by the user or by the teardown's loop), and
\* once inactive stays inactive; the teardown takes the whole live-set as its
\* snapshot, calls unsubscribe() on every member of it before its loop ends,
\* and each member is inactive when that call returns.
C21_ActiveThenInactiveForGood ==
    /\ [][\A s \in Subs :
             /\ Constructs(s) => ~inactive'[s]
             /\ inactive[s] => inactive'[s]
             /\ (~inactive[s] /\ inactive'[s]) =>
                    \E t \in Threads : SetsInactive(t, s)]_vars
    /\ [][\A t \in Threads :
             /\ (At(t, "dis4") /\ Steps(t)) =>
                    stack'[t][Len(stack[t])].todo = subscriptions
             /\ (At(t, "dis5") /\ Steps(t)) =>
                    \E s \in Top(t).todo :
                        /\ Len(stack'[t]) = Len(stack[t]) + 1
                        /\ stack'[t][Len(stack'[t])].pc = "uns1"
                        /\ stack'[t][Len(stack'[t])].s = s
                        /\ stack'[t][Len(stack[t])].todo = Top(t).todo \ {s}
             /\ \A k \in 1 .. Len(stack[t]) :
                    /\ (LoopCalls(t, k) /\ Len(stack'[t]) <= k) =>
                           inactive'[stack[t][k + 1].s]
                    /\ (/\ stack[t][k].pc = "dis5"
                        /\ Len(stack'[t]) >= k
                        /\ stack'[t][k].pc = "dis6") =>
                           stack[t][k].todo = {}]_vars

\* a teardown the user asked for has returned, and it has made inactive a
\* Subscription that no unsubscribe() of the user was called on
C21_TeardownMadeInactive ==
    /\ disconnectReturned
    /\ done["unsubscribe"] = 0
    /\ \E s \in handles : inactive[s] /\ unsubReturned[s]


\* pieces i and j of the stream are of the same call's write
SameWrite(i, j) == stream[i].by = stream[j].by /\ stream[i].n = stream[j].n

\* C22: on a tcpq connection the bytes of two frames never interleave on the
\* stream: the writes of PUBLISH, SUBSCRIBE and UNSUBSCRIBE frames by
\* concurrent threads are serialised, so between two pieces of one frame
\* there is no piece of another.
C22_FramesNeverInterleave ==
    proto = "tcpq" =>
        \A i, j \in 1 .. Len(stream) :
            (i < j /\ SameWrite(i, j)) =>
                \A k \in i .. j : SameWrite(i, k)


\* thread t is in the body of a disconnect(): it has set the flag (line 146)
\* and has not returned from the join of line 159
InTeardown(t) ==
    \E k \in 1 .. Len(stack[t]) :
        stack[t][k].pc \in {"dis3", "dis3b", "dis4", "dis5", "dis6"}

\* C23: the teardown of a Connection runs once: of the threads that call
\* disconnect() (users, the receiver after a read error, a call whose write
\* failed), at most one executes the body (shutdown and close, the snapshot of
\* the live-set, the unsubscribes, the join).
C23_TeardownRunsOnce ==
    Cardinality({t \in Threads : InTeardown(t)}) <= 1


\* C24: every Subscription in the Connection's live-set is active: no thread
\* can find in the live-set a Subscription whose active-flag is false.
C24_LiveSetMembersActive ==
    \A s \in subscriptions : ~inactive[s]

\* every teardown begun has run to its end and no call is under way
TornDown == disconnected /\ Quiet

\* C25: no Subscription outlives its Connection: once the teardown has
\* completed the live-set is empty and every Subscription the connection has
\* made is inactive and its worker has exited, whatever the interleaving of
\* subscribe and the teardown.
C25_NoSubscriptionOutlivesConnection ==
    TornDown =>
        /\ subscriptions = {}
        /\ \A s \in 1 .. nsubs : inactive[s] /\ thr[WorkerOf(s)] = "exited"


\* C26: when the relay closes the TCP stream or the connection breaks, so that
\* the receiver's reads come to nothing or fail, the receiver leaves its loop
\* and the tcpq connection is torn down in the end (is_connected() false),
\* whether or not a user calls anything.
C26_RelayFailureTearsDown ==
    (proto = "tcpq" /\ peer # "up") ~> disconnected


\* thread t is running a callback, or a call the callback has made
InCallback(t) ==
    \E k \in 1 .. Len(stack[t]) : stack[t][k].pc \in {"ocb", "ocb2"}

\* thread t is at a "with self._subscriptions_mutex", waiting for the lock
WaitsForLock(t) ==
    \E pc \in {"osub2", "ohook1", "odis4", "or2"} : At(t, pc)

\* C27: on the tcpq connection the registry gives out, no callback runs on a
\* thread that holds the subscriptions-mutex, so a callback that calls
\* subscribe, unsubscribe or disconnect gets the lock: no thread waits for a
\* lock it holds itself.
C27_CallbacksRunOutsideLock ==
    \A t \in OldThreads :
        /\ InCallback(t) => subscriptions_mutex # t
        /\ WaitsForLock(t) => subscriptions_mutex # t


\* thread t writes the SUBSCRIBE frame of its subscribe() to the socket
WritesSubscribe(t) == At(t, "sub3") /\ Steps(t) /\ wire' # wire

\* C28: in tcpq subscribe the Subscription is in the live-set, and active,
\* when its SUBSCRIBE frame is written to the socket, and the write leaves it
\* there: what the relay sends in answer finds it in the live-set.
C28_InLiveSetBeforeSubscribeFrame ==
    [][\A t \in Threads :
          WritesSubscribe(t) =>
              /\ wire' = Append(wire, SubscribeFrame(pattern[Top(t).s]))
              /\ Top(t).s \in subscriptions
              /\ Top(t).s \in subscriptions'
              /\ ~inactive[Top(t).s]]_vars

\* a message the relay sent in answer to a SUBSCRIBE frame has been put on
\* the queue of the Subscription the frame was written for
C28_AnswerEnqueued ==
    /\ proto = "tcpq"
    /\ \E s \in handles :
           /\ enqueued[s] # <<>>
           /\ \E i \in 1 .. Len(wire) : wire[i] = SubscribeFrame(pattern[s])


\* the sequence number piece i of the stream carries (bytes 4..7 of a datagram)
SeqOf(i) == FromBytes(SubSeq(stream[i].bytes, 5, 8))

\* the publishes that have sent a datagram, and those that have not yet
\* bumped the counter
Sending == {<<stream[i].by, stream[i].n>> : i \in 1 .. Len(stream)}
Unfinished ==
    {<<t, call[t].n>> : t \in {u \in Users : call[u].pc \in {"send", "inc", "inc2"}}}

\* thread t sends a datagram, or reads or writes the sequence counter
TouchesSequence(t) ==
    /\ call[t].pc \in {"send", "inc", "inc2"}
    /\ call'[t] # call[t]

ReadsFragment(source, seq, idx) ==
    /\ feeds' = feeds + 1
    /\ fed'.source = source /\ fed'.seq = seq /\ fed'.idx = idx

\* C30: in udpm reassembly a fragment with index 1 or more that is not the next
\* one expected by the buffer of its (sequence, source) key, or whose key has
\* no buffer, is dropped silently: reading it emits no message, creates no
\* buffer, and leaves every buffer's data, remaining count and next expected
\* index as they were.
C30_UnexpectedFragmentDropped ==
    [][\A source \in Sources, seq \in PeerSeqs :
           \A idx \in 1 .. FragmentsIn(seq) - 1 :
               (ReadsFragment(source, seq, idx) /\ NotExpected(source, seq, idx))
                   => /\ ~fed'.has
                      /\ emitted' = emitted
                      /\ fragment_buffers' = fragment_buffers]_vars

\* a fragment that came ahead of its turn was read and dropped while the
\* buffer of its key held data and waited for an earlier fragment
C30_DroppedAheadOfTurn ==
    /\ fed.idx >= 1
    /\ ~fed.has
    /\ <<fed.seq, fed.source>> \in DOMAIN fragment_buffers
    /\ fragment_buffers[<<fed.seq, fed.source>>].current_fragment_number
           < fed.idx
    /\ fragment_buffers[<<fed.seq, fed.source>>].data # <<>>

\* C31: in udpm reassembly a fragment that arrives out of index order discards
\* its logical message: the buffer of its (sequence, source) key is dropped,
\* and no later fragment of the message, late or repeated, makes the reader
\* emit it, until a fragment 0 of the key starts over.
C31_OutOfOrderDiscardsMessage ==
    [][\A source \in Sources, seq \in PeerSeqs :
           \A idx \in 1 .. FragmentsIn(seq) - 1 :
               ReadsFragment(source, seq, idx)
                   => /\ (/\ <<seq, source>> \in DOMAIN fragment_buffers
                          /\ NotExpected(source, seq, idx))
                             => <<seq, source>> \notin DOMAIN fragment_buffers'
                      /\ <<seq, source>> \in late => ~fed'.has]_vars

\* the messages the reader has emitted for the peer, in order
EmittedFor(source) ==
    SelectSeq(emitted, LAMBDA e : e.source = source)

\* the messages that the first n datagrams of the peer's stream complete
CompleteIn(source, n) ==
    (IF n >= 3
     THEN <<[source |-> source, seq |-> 0, channel |-> PeerChannel(source),
             data |-> PeerData(source, 0, 3)]>>
     ELSE <<>>)
    \o (IF n >= 5
        THEN <<[source |-> source, seq |-> 1, channel |-> PeerChannel(source),
                data |-> <<PeerByte(source, 1, 0), PeerByte(source, 1, 1)>>]>>
        ELSE <<>>)

\* C32: udpm reassembly is per source address.  While a peer's fragments are
\* read in their order, whatever the other peer's datagrams with the same
\* sequence numbers do in between, each message of the peer is emitted exactly
\* once, with the peer's own channel and data (first conjunct); and reading a
\* datagram of one peer leaves the other peer's buffers as they were: nothing
\* is appended to them, none is reset and none is removed (second conjunct).
C32_ReassemblyPerSource ==
    /\ [](\A source \in Sources :
              upto[source] >= 0
                  => EmittedFor(source) = CompleteIn(source, upto[source]))
    /\ [][\A source \in Sources, seq \in PeerSeqs :
              \A idx \in 0 .. FragmentsIn(seq) - 1 :
                  ReadsFragment(source, seq, idx)
                      => \A other \in Sources \ {source}, q \in PeerSeqs :
                             /\ <<q, other>> \in DOMAIN fragment_buffers
                                    <=> <<q, other>> \in DOMAIN fragment_buffers'
                             /\ <<q, other>> \in DOMAIN fragment_buffers
                                    => fragment_buffers'[<<q, other>>]
                                           = fragment_buffers[<<q, other>>]]_vars

\* the fragments of both peers' messages with sequence number 0 were read
\* interleaved, each peer's in order, and both messages were emitted; the
\* second peer's first fragment came while the first peer's buffer was waiting
C32_BothEmittedInterleaved ==
    /\ upto["A"] = 3 /\ upto["B"] = 3
    /\ Len(emitted) = 2
    /\ emitted[1].source = "B" /\ emitted[2].source = "A"
    /\ fed.source = "A"

\* the thread's disconnect() is over and no exception ended the thread, the
\* receiver is out of its loop, and the worker of every Subscription has exited
TeardownOver(t) ==
    /\ ~InTeardown(t)
    /\ thr[t] # "raised"
    /\ ~(At(Receiver, "r1") \/ At(Receiver, "r2") \/ At(Receiver, "r3"))
    /\ \A s \in 1 .. nsubs : thr[WorkerOf(s)] = "exited"

\* C33: teardown is bounded: a disconnect() that a user thread or the receiver
\* thread (after an I/O error) makes on a live connection returns normally in
\* the end, with the receiver out of its loop and every Subscription's worker
\* exited; no thread waits for ever and none waits on itself.
C33_TeardownReturns ==
    \A t \in Users \cup {Receiver} : InTeardown(t) ~> TeardownOver(t)

\* m is the channel and data of a publish that is on the wire, which is what
\* the relay's inbound frames carry
SentByRelay(m) == m \in Messages /\ PublishedAt(m) # {}

\* C34: the tcpq receiver delivers no phantom message: each message it fans
\* out is the channel and data of a complete frame that the relay sent, and a
\* read that comes back short (the end of the stream, or part of the
\* data-length field) puts no empty or truncated message into a
\* Subscription's queue.
C34_NoPhantomMessage ==
    proto = "tcpq" =>
        /\ At(Receiver, "r3") => SentByRelay(Message(Top(Receiver)))
        /\ \A s \in 1 .. nsubs : \A i \in 1 .. Len(enqueued[s]) :
               SentByRelay(Message(enqueued[s][i]))

\* C35: teardown from inside a callback is safe: when a Subscription's callback,
\* on that Subscription's worker, calls unsubscribe() on its Subscription or
\* disconnect() on its Connection, the call raises nothing, and once it has
\* returned the Subscription is inactive and, for disconnect(), so is every
\* other Subscription, and the connection is torn down.
C35_CallbackTeardownSafe ==
    \A s \in 1 .. nsubs :
        /\ thr[WorkerOf(s)] # "raised"
        /\ At(WorkerOf(s), "w3u") => inactive[s]
        /\ At(WorkerOf(s), "w3d")
               => disconnected /\ \A r \in 1 .. nsubs : inactive[r]
=============================================================================
